---- MODULE Spec2Model ----
(***************************************************************************)
(* A model of the validation engine of @signalforge/validation:            *)
(* dot-path get/set over a heap of JavaScript containers, wildcard         *)
(* expansion, condition evaluation, the per-field rule walk and            *)
(* Validator.validate.                                                     *)
(*                                                                         *)
(* JavaScript strings are sequences of one-character strings, so that      *)
(* split('.'), trim(), template concatenation and /^\d+$/ are computed.    *)
(* Containers live in a heap addressed by reference, so that aliasing      *)
(* between the input record and the "validated" tree is visible.           *)
(***************************************************************************)
EXTENDS Integers, Sequences, FiniteSets, TLC

\* ------------------------------------------------------------------------
\* Bounds of the model
\* ------------------------------------------------------------------------
\* number of validate() calls made on one Validator instance
MaxCalls == 2

\* ------------------------------------------------------------------------
\* JavaScript values
\* ------------------------------------------------------------------------
Null == [t |-> "null", v |-> 0]
Undefined == [t |-> "undefined", v |-> 0]
Str(s) == [t |-> "string", v |-> s]
Num(n) == [t |-> "number", v |-> n]
Bool(b) == [t |-> "boolean", v |-> b]
\* a reference to a heap container (plain object or array)
Ref(id) == [t |-> "ref", v |-> id]
\* a reference to a RegExp object of the regex store
RegExpRef(id) == [t |-> "regexp", v |-> id]

\* the number NaN (every other number of the model is an integer)
NaN == [t |-> "nan", v |-> 0]

\* the typeof operator
TypeOf(val) ==
    IF val.t \in {"null", "ref", "regexp"} THEN "object"
    ELSE IF val.t = "nan" THEN "number" ELSE val.t

\* ------------------------------------------------------------------------
\* Strings
\* ------------------------------------------------------------------------
Digits == <<"0", "1", "2", "3", "4", "5", "6", "7", "8", "9">>
DigitSet == {Digits[i] : i \in 1..10}
\* the whitespace characters of the model's alphabet
WhiteSpace == {" "}

DigitValue(c) == (CHOOSE i \in 1..10 : Digits[i] = c) - 1

RECURSIVE NatToStr(_)
\* String(i) for a non-negative integer i
NatToStr(n) ==
    IF n < 10 THEN <<Digits[n + 1]>>
    ELSE NatToStr(n \div 10) \o <<Digits[(n % 10) + 1]>>

RECURSIVE StrToNat(_)
\* the number denoted by a string of digits
StrToNat(s) ==
    IF Len(s) = 0 THEN 0
    ELSE 10 * StrToNat(SubSeq(s, 1, Len(s) - 1)) + DigitValue(s[Len(s)])

\* /^\d+$/.test(s)
IsDigits(s) == Len(s) > 0 /\ \A i \in 1..Len(s) : s[i] \in DigitSet

\* s is a canonical array index ("0", "1", ..., no leading zero)
IsArrayIndex(s) == IsDigits(s) /\ (Len(s) = 1 \/ s[1] # "0")

RECURSIVE TrimStart(_)
TrimStart(s) ==
    IF Len(s) > 0 /\ s[1] \in WhiteSpace THEN TrimStart(Tail(s)) ELSE s

RECURSIVE TrimEnd(_)
TrimEnd(s) ==
    IF Len(s) > 0 /\ s[Len(s)] \in WhiteSpace
    THEN TrimEnd(SubSeq(s, 1, Len(s) - 1)) ELSE s

\* String.prototype.trim
Trim(s) == TrimEnd(TrimStart(s))

\* String.prototype.includes for a single character
Includes(s, c) == \E i \in 1..Len(s) : s[i] = c

RECURSIVE Split(_)
\* path.split('.')
Split(s) ==
    IF ~Includes(s, ".") THEN <<s>>
    ELSE LET i == CHOOSE k \in 1..Len(s) :
                      s[k] = "." /\ \A j \in 1..(k - 1) : s[j] # "."
         IN <<SubSeq(s, 1, i - 1)>> \o Split(SubSeq(s, i + 1, Len(s)))

\* ------------------------------------------------------------------------
\* The heap of containers
\* ------------------------------------------------------------------------
\* A container is [kind |-> "object" | "array", ents |-> <<key, value>> pairs,
\* length |-> the length property of an array (0 in a plain object)] with
\* ents kept in own-property order: array-index keys ascending, then the
\* other keys in creation order.  A heap is a sequence of containers; a
\* reference is an index into it.
EmptyHeap == <<>>

NewObject == [kind |-> "object", ents |-> <<>>, length |-> 0]
NewArray == [kind |-> "array", ents |-> <<>>, length |-> 0]

\* allocation of a fresh container; its reference is Len of the new heap
Alloc(h, c) == Append(h, c)

\* Array.isArray(val)
IsArray(h, val) == val.t = "ref" /\ h[val.v].kind = "array"

\* the name of the length property, which every array owns
Length == <<"l", "e", "n", "g", "t", "h">>

\* (key in obj), own properties only
HasProp(h, id, key) ==
    \/ \E i \in 1..Len(h[id].ents) : h[id].ents[i][1] = key
    \/ h[id].kind = "array" /\ key = Length

\* array.length
ArrayLength(h, id) == h[id].length

\* obj[key]
GetProp(h, id, key) ==
    IF h[id].kind = "array" /\ key = Length THEN Num(ArrayLength(h, id))
    ELSE IF HasProp(h, id, key)
    THEN LET i == CHOOSE k \in 1..Len(h[id].ents) : h[id].ents[k][1] = key
         IN h[id].ents[i][2]
    ELSE Undefined

\* the position at which a new key is created in the own-property order
InsertPos(ents, key) ==
    IF IsArrayIndex(key)
    THEN LET before == {i \in 1..Len(ents) :
                           /\ IsArrayIndex(ents[i][1])
                           /\ StrToNat(ents[i][1]) < StrToNat(key)}
         IN Cardinality(before) + 1
    ELSE Len(ents) + 1

\* the array-index entries of a container, ascending
IndexEntries(h, id) == SelectSeq(h[id].ents, LAMBDA e : IsArrayIndex(e[1]))

\* the conversions of a value to a primitive, a string and a number
RECURSIVE ToPrimitive(_, _)
RECURSIVE JoinElements(_, _, _)
\* ToPrimitive(val): a container becomes a string (Object.prototype.toString
\* for a plain object, Array.prototype.join for an array)
ToPrimitive(h, val) ==
    IF val.t # "ref" THEN val
    ELSE IF h[val.v].kind = "array"
    THEN Str(JoinElements(h, val.v, 0))
    ELSE Str(<<"[", "o", "b", "j", "e", "c", "t", " ",
               "O", "b", "j", "e", "c", "t", "]">>)

\* ToString of a primitive
ToStringPrim(p) ==
    CASE p.t = "string" -> p.v
      [] p.t = "number" -> NatToStr(p.v)
      [] p.t = "nan" -> <<"N", "a", "N">>
      [] p.t = "boolean" -> IF p.v THEN <<"t", "r", "u", "e">>
                            ELSE <<"f", "a", "l", "s", "e">>
      [] p.t = "null" -> <<"n", "u", "l", "l">>
      [] OTHER -> <<"u", "n", "d", "e", "f", "i", "n", "e", "d">>

\* the elements i.. of the array id joined with ','; null, undefined and
\* holes give the empty string
JoinElements(h, id, i) ==
    IF i >= ArrayLength(h, id) THEN <<>>
    ELSE LET e == GetProp(h, id, NatToStr(i))
             str == IF e.t \in {"null", "undefined"} THEN <<>>
                    ELSE ToStringPrim(ToPrimitive(h, e))
         IN (IF i > 0 THEN <<",">> ELSE <<>>) \o str
                \o JoinElements(h, id, i + 1)

\* ToNumber of a primitive.  The strings of the model hold no sign, no
\* fraction, no exponent and no radix prefix, so a string is numeric exactly
\* when it trims to nothing or to decimal digits.
ToNumber(p) ==
    CASE p.t \in {"number", "nan"} -> p
      [] p.t = "string" ->
            IF Trim(p.v) = <<>> THEN Num(0)
            ELSE IF IsDigits(Trim(p.v)) THEN Num(StrToNat(Trim(p.v)))
            ELSE NaN
      [] p.t = "boolean" -> IF p.v THEN Num(1) ELSE Num(0)
      [] p.t = "null" -> Num(0)
      [] OTHER -> NaN

\* array.length = val raises a RangeError unless ToNumber(val) is a length
\* (every number of the model but NaN is a non-negative integer)
InvalidLength(h, val) == ToNumber(ToPrimitive(h, val)).t = "nan"

\* array.length = val for a valid length: the elements from the new length
\* on are deleted
SetLength(h, id, val) ==
    LET n == ToNumber(ToPrimitive(h, val)).v
    IN [h EXCEPT ![id] =
           [kind |-> h[id].kind,
            ents |-> SelectSeq(h[id].ents,
                               LAMBDA e : \/ ~IsArrayIndex(e[1])
                                          \/ StrToNat(e[1]) < n),
            length |-> n]]

\* obj[key] = val with a new or an existing plain property
SetOwn(h, id, key, val) ==
    LET ents == h[id].ents IN
    IF \E i \in 1..Len(ents) : ents[i][1] = key
    THEN LET i == CHOOSE k \in 1..Len(ents) : ents[k][1] = key
         IN [h EXCEPT ![id].ents[i] = <<key, val>>]
    ELSE LET p == InsertPos(ents, key)
         IN [h EXCEPT ![id].ents =
                SubSeq(ents, 1, p - 1) \o <<<<key, val>>>>
                    \o SubSeq(ents, p, Len(ents))]

\* obj[key] = val: the heap after the assignment (unchanged when the
\* assignment raises); writing an element at or past the length of an array
\* extends the length
SetProp(h, id, key, val) ==
    IF h[id].kind = "array" /\ key = Length
    THEN IF InvalidLength(h, val) THEN h ELSE SetLength(h, id, val)
    ELSE IF /\ h[id].kind = "array"
            /\ IsArrayIndex(key)
            /\ StrToNat(key) >= ArrayLength(h, id)
    THEN [SetOwn(h, id, key, val) EXCEPT ![id].length = StrToNat(key) + 1]
    ELSE SetOwn(h, id, key, val)

\* ------------------------------------------------------------------------
\* utils/get, utils/is-empty
\* ------------------------------------------------------------------------
\* JavaScript truthiness of a value
Truthy(val) ==
    CASE val.t \in {"null", "undefined"} -> FALSE
      [] val.t = "string" -> Len(val.v) > 0
      [] val.t = "number" -> val.v # 0
      [] val.t = "boolean" -> val.v
      [] OTHER -> TRUE

\* (current as Record)[part] for a value whose typeof is 'object' and that
\* is not null
Index(h, cur, part) ==
    IF cur.t = "ref" THEN GetProp(h, cur.v, part) ELSE Undefined

RECURSIVE getWalk(_, _, _, _)
\* the loop of get over parts[i..]
getWalk(h, current, parts, i) ==
    IF i > Len(parts) THEN current
    ELSE IF current.t \in {"null", "undefined"} THEN Undefined
    ELSE IF TypeOf(current) # "object" THEN Undefined
    ELSE getWalk(h, Index(h, current, parts[i]), parts, i + 1)

\* get(data, path)
get(h, data, path) ==
    IF Len(path) = 0 THEN Undefined ELSE getWalk(h, data, Split(path), 1)

\* the test of set that decides whether an intermediate container is created
setCreates(h, cur, part) ==
    \/ ~HasProp(h, cur, part)
    \/ TypeOf(GetProp(h, cur, part)) # "object"
    \/ GetProp(h, cur, part) = Null

\* the outcome of a step of set: the heap and the error raised ("" for none)
SetOutcome(h, thrown) == [h |-> h, thrown |-> thrown]

\* current[key] = val in strict code: a TypeError on a primitive, a
\* RangeError for an invalid array length
assign(h, current, key, val) ==
    IF current.t # "ref" THEN SetOutcome(h, "TypeError")
    ELSE IF /\ h[current.v].kind = "array"
            /\ key = Length
            /\ InvalidLength(h, val)
    THEN SetOutcome(h, "RangeError")
    ELSE SetOutcome(SetProp(h, current.v, key, val), "")

\* the intermediate container set creates before nextPart
created(nextPart) == IF IsDigits(nextPart) THEN NewArray ELSE NewObject

\* the body of the loop of set for parts[i]: the container is created and
\* stored when the test asks for it
setStep(h, current, part, nextPart) ==
    IF current.t # "ref" THEN SetOutcome(h, "TypeError")
    ELSE IF setCreates(h, current.v, part)
    THEN assign(Alloc(h, created(nextPart)), current, part, Ref(Len(h) + 1))
    ELSE SetOutcome(h, "")

RECURSIVE setWalk(_, _, _, _, _)
\* the loop of set over parts[i..], then the final write; current is the
\* value reached so far
setWalk(h, current, parts, i, value) ==
    IF i > Len(parts) - 1 THEN assign(h, current, parts[Len(parts)], value)
    ELSE IF setStep(h, current, parts[i], parts[i + 1]).thrown # ""
    THEN setStep(h, current, parts[i], parts[i + 1])
    ELSE setWalk(setStep(h, current, parts[i], parts[i + 1]).h,
                 GetProp(setStep(h, current, parts[i], parts[i + 1]).h,
                         current.v, parts[i]),
                 parts, i + 1, value)

\* set(data, path, value): the heap after the call and the error it raised
setCall(h, data, path, value) ==
    IF Len(path) = 0 THEN SetOutcome(h, "")
    ELSE setWalk(h, data, Split(path), 1, value)

\* the heap after set(data, path, value).  A call raises only on a path
\* with a segment 'length' below an array.
set(h, data, path, value) == setCall(h, data, path, value).h

\* isEmpty with the string test written value === '' (no trim)
isEmptyNoTrim(h, value) ==
    IF value.t \in {"null", "undefined"} THEN TRUE
    ELSE IF value.t = "string" THEN value.v = <<>>
    ELSE IF IsArray(h, value) THEN ArrayLength(h, value.v) = 0
    ELSE FALSE

\* isEmpty(value)
isEmpty(h, value) ==
    IF value.t \in {"null", "undefined"} THEN TRUE
    ELSE IF value.t = "string" THEN Trim(value.v) = <<>>
    ELSE IF IsArray(h, value) THEN ArrayLength(h, value.v) = 0
    ELSE FALSE

\* ------------------------------------------------------------------------
\* wildcard.ts
\* ------------------------------------------------------------------------
\* Map.prototype.set on a Map kept as a sequence of <<key, value>> pairs
MapSet(m, k, val) ==
    IF \E i \in 1..Len(m) : m[i][1] = k
    THEN LET i == CHOOSE j \in 1..Len(m) : m[j][1] = k
         IN [m EXCEPT ![i] = <<k, val>>]
    ELSE Append(m, <<k, val>>)

\* isWildcardPattern(path)
isWildcardPattern(path) == Includes(path, "*")

\* The expansion threads a record [map, deepest]: the Map built so far and
\* the greatest number of nested activations of expandRecursive so far.
\* an activation at nesting `level` is entered
entered(result, level) ==
    [result EXCEPT !.deepest = IF level > @ THEN level ELSE @]

RECURSIVE expandRecursive(_, _, _, _, _, _, _)
RECURSIVE expandEach(_, _, _, _, _, _, _, _)
\* expandRecursive with a wildcard that stays on its segment: the entries
\* of a container are expanded against the same '*'
expandRecursiveDeep(h, parts, index, current, path, result, level) ==
    IF index > Len(parts)
    THEN [map |-> MapSet(result.map, Tail(path), current),
          deepest |-> entered(result, level).deepest]
    ELSE LET part == parts[index] IN
         IF part = <<"*">>
         THEN IF IsArray(h, current)
              THEN expandEach(h, parts, index - 1,
                              IndexEntries(h, current.v),
                              1, path, entered(result, level), level)
              ELSE IF current.t = "ref"
              THEN expandEach(h, parts, index - 1, h[current.v].ents,
                              1, path, entered(result, level), level)
              ELSE entered(result, level)
         ELSE LET next == IF Truthy(current) /\ TypeOf(current) = "object"
                          THEN Index(h, current, part) ELSE Undefined
              IN expandRecursive(h, parts, index + 1, next,
                                 path \o <<".">> \o part,
                                 entered(result, level), level + 1)

\* expandRecursive(parts, index, current, path, result); index is 1-based
\* and level is the nesting of this activation
expandRecursive(h, parts, index, current, path, result, level) ==
    IF index > Len(parts)
    THEN [map |-> MapSet(result.map, Tail(path), current),
          deepest |-> entered(result, level).deepest]
    ELSE LET part == parts[index] IN
         IF part = <<"*">>
         THEN IF IsArray(h, current)
              THEN expandEach(h, parts, index, IndexEntries(h, current.v),
                              1, path, entered(result, level), level)
              ELSE IF current.t = "ref"
              THEN expandEach(h, parts, index, h[current.v].ents,
                              1, path, entered(result, level), level)
              ELSE entered(result, level)
         ELSE LET next == IF Truthy(current) /\ TypeOf(current) = "object"
                          THEN Index(h, current, part) ELSE Undefined
              IN expandRecursive(h, parts, index + 1, next,
                                 path \o <<".">> \o part,
                                 entered(result, level), level + 1)

\* the forEach of expandRecursive over the entries ents[k..]; level is the
\* nesting of the activation that runs the forEach
expandEach(h, parts, index, ents, k, path, result, level) ==
    IF k > Len(ents) THEN result
    ELSE expandEach(h, parts, index, ents, k + 1, path,
             expandRecursive(h, parts, index + 1, ents[k][2],
                             path \o <<".">> \o ents[k][1], result,
                             level + 1),
             level)

\* the call expandRecursive(parts, 0, data, '', result) of expandWildcards
expandFrom(h, pattern, data) ==
    expandRecursive(h, Split(pattern), 1, data, <<>>,
                    [map |-> <<>>, deepest |-> 0], 1)

\* expandWildcards(pattern, data): the Map as a sequence of pairs
expandWildcards(h, pattern, data) ==
    IF ~Includes(pattern, "*") THEN <<<<pattern, get(h, data, pattern)>>>>
    ELSE expandFrom(h, pattern, data).map

\* ------------------------------------------------------------------------
\* Exceptions
\* ------------------------------------------------------------------------
\* the exceptions of errors.ts, and no exception
UnknownRuleException(ruleName) ==
    [class |-> "UnknownRuleException", ruleName |-> ruleName, reason |-> ""]
InvalidRuleNameException(ruleName, reason) ==
    [class |-> "InvalidRuleNameException", ruleName |-> ruleName,
     reason |-> reason]
\* the errors that the language throws: SyntaxError, TypeError
JsError(class) == [class |-> class, ruleName |-> "", reason |-> ""]
NoException == [class |-> "", ruleName |-> "", reason |-> ""]

\* a function returned value v / threw exception e
Return(v) == [thrown |-> NoException, value |-> v]
Throw(e) == [thrown |-> e, value |-> <<>>]

\* ------------------------------------------------------------------------
\* RegExp objects
\* ------------------------------------------------------------------------
\* The regex store is a sequence of RegExp objects
\* [source, global, lastIndex]; RegExpRef(id) refers to the id-th one.  The
\* sources of the model are literal patterns (no metacharacter), so a match
\* at a position is an occurrence of the source at that position.
MatchAt(src, s, i) ==
    /\ i + Len(src) <= Len(s)
    /\ \A k \in 1..Len(src) : s[i + k] = src[k]

\* RegExp.prototype.test(s) on the object re: the outcome and the object
\* after the call (a global regex starts at lastIndex and stores the end of
\* the match, or 0 on failure; any other regex starts at 0 and keeps
\* lastIndex)
RegExpTest(re, s) ==
    LET start == IF re.global THEN re.lastIndex ELSE 0
        hits == {i \in start..Len(s) : MatchAt(re.source, s, i)}
    IN IF start > Len(s) \/ hits = {}
       THEN [matched |-> FALSE,
             re |-> IF re.global THEN [re EXCEPT !.lastIndex = 0] ELSE re]
       ELSE LET i == CHOOSE j \in hits : \A k \in hits : j <= k
            IN [matched |-> TRUE,
                re |-> IF re.global
                       THEN [re EXCEPT !.lastIndex = i + Len(re.source)]
                       ELSE re]

\* new RegExp(source)
NewRegExp(src) == [source |-> src, global |-> FALSE, lastIndex |-> 0]

\* new RegExp(source) returns: the source is a pattern.  Of the sources of
\* the model only those with an unterminated group, '(', are not.
Compiles(src) == ~Includes(src, "(")

\* (pattern instanceof RegExp ? pattern : new RegExp(pattern)).test(s):
\* the outcome, the regex store after the call, and the SyntaxError that
\* new RegExp threw
PatternTest(rx, pattern, s) ==
    IF pattern.t = "regexp"
    THEN LET r == RegExpTest(rx[pattern.v], s)
         IN [matched |-> r.matched, rx |-> [rx EXCEPT ![pattern.v] = r.re],
             thrown |-> NoException]
    ELSE IF ~Compiles(pattern.v)
    THEN [matched |-> FALSE, rx |-> rx, thrown |-> JsError("SyntaxError")]
    ELSE [matched |-> RegExpTest(NewRegExp(pattern.v), s).matched, rx |-> rx,
          thrown |-> NoException]

\* ------------------------------------------------------------------------
\* condition.ts
\* ------------------------------------------------------------------------
\* A condition is a record [op, field, cmp, expected, subs]:
\*   ['and', ...subs] / ['or', ...subs]       op = "and" / "or"
\*   ['@empty'] ... ['@matches', pattern]     op = the '@' subject
\*   ['@type', name]                          op = "@type", cmp = name
\*   [field, cmp, expected] / [field, cmp]    op = "field"
Cond(op, field, cmp, expected, subs) ==
    [op |-> op, field |-> field, cmp |-> cmp, expected |-> expected,
     subs |-> subs]
And(subs) == Cond("and", <<>>, "", Undefined, subs)
Or(subs) == Cond("or", <<>>, "", Undefined, subs)
SelfCond(subject, cmp, expected) == Cond(subject, <<>>, cmp, expected, <<>>)
FieldCond(field, cmp, expected) == Cond("field", field, cmp, expected, <<>>)

\* a === b
StrictEq(a, b) == a.t # "nan" /\ a = b

\* the characters of the model in ascending code-unit order
Alphabet ==
    <<" ", "*", ",", ".", "0", "1", "2", "3", "4", "5", "6", "7", "8", "9",
      "@", "N", "O", "[", "]", "_", "a", "b", "c", "d", "e", "f", "g", "h",
      "i", "j", "k", "l", "m", "n", "o", "p", "q", "r", "s", "t", "u", "v",
      "w", "x", "y", "z">>
CharCode(c) == CHOOSE i \in 1..Len(Alphabet) : Alphabet[i] = c

RECURSIVE StrLess(_, _)
\* s < t for two strings (code-unit order)
StrLess(s, t) ==
    IF Len(t) = 0 THEN FALSE
    ELSE IF Len(s) = 0 THEN TRUE
    ELSE IF s[1] = t[1] THEN StrLess(Tail(s), Tail(t))
    ELSE CharCode(s[1]) < CharCode(t[1])

\* a < b, the abstract relational comparison: two strings are compared as
\* strings, anything else as numbers, and a NaN operand gives false
JsLess(h, a, b) ==
    LET pa == ToPrimitive(h, a)
        pb == ToPrimitive(h, b)
    IN IF pa.t = "string" /\ pb.t = "string" THEN StrLess(pa.v, pb.v)
       ELSE LET na == ToNumber(pa)
                nb == ToNumber(pb)
            IN na.t = "number" /\ nb.t = "number" /\ na.v < nb.v

\* a <= b: not (b < a), except that an undefined comparison gives false
JsLessEq(h, a, b) ==
    LET pa == ToPrimitive(h, a)
        pb == ToPrimitive(h, b)
    IN IF pa.t = "string" /\ pb.t = "string" THEN ~StrLess(pb.v, pa.v)
       ELSE LET na == ToNumber(pa)
                nb == ToNumber(pb)
            IN na.t = "number" /\ nb.t = "number" /\ na.v <= nb.v

\* compare(a, op, b)
compare(h, a, op, b) ==
    CASE op = "=" -> StrictEq(a, b)
      [] op = "!=" -> ~StrictEq(a, b)
      [] op = ">" -> JsLess(h, b, a)
      [] op = ">=" -> JsLessEq(h, b, a)
      [] op = "<" -> JsLess(h, a, b)
      [] op = "<=" -> JsLessEq(h, a, b)
      [] OTHER -> FALSE

\* the outcome of an evaluation: the boolean returned and the regex store
\* after it, or the exception thrown
Met(res, rx) == [res |-> res, rx |-> rx, thrown |-> NoException]
Thrown(e, rx) == [res |-> FALSE, rx |-> rx, thrown |-> e]

\* evaluateSelfCondition(condition, value)
evaluateSelfCondition(h, rx, condition, value) ==
    CASE condition.op = "@empty" -> Met(isEmpty(h, value), rx)
      [] condition.op = "@filled" -> Met(~isEmpty(h, value), rx)
      [] condition.op = "@length" ->
            LET len == IF value.t = "string" THEN Len(value.v)
                       ELSE IF IsArray(h, value)
                       THEN ArrayLength(h, value.v) ELSE 0
            IN Met(compare(h, Num(len), condition.cmp, condition.expected),
                   rx)
      [] condition.op = "@value" ->
            Met(compare(h, value, condition.cmp, condition.expected), rx)
      [] condition.op = "@type" ->
            Met(IF condition.cmp = "array" THEN IsArray(h, value)
                ELSE TypeOf(value) = condition.cmp,
                rx)
      [] condition.op = "@matches" ->
            IF value.t # "string" THEN Met(FALSE, rx)
            ELSE LET r == PatternTest(rx, condition.expected, value.v)
                 IN [res |-> r.matched, rx |-> r.rx, thrown |-> r.thrown]
      [] OTHER -> Met(FALSE, rx)

\* the operand of 'in' and 'not_in' as the rule set writes it: an array
List(items) == [t |-> "list", v |-> items]

\* Array.prototype.includes(val) on a list of values
ListIncludes(list, val) == \E i \in 1..Len(list) : list[i] = val

\* evaluateFieldCondition(condition, data); expected.includes is no
\* function when expected is a number, and reading it throws when expected
\* is null or undefined
evaluateFieldCondition(h, rx, condition, data) ==
    LET value == get(h, data, condition.field) IN
    CASE condition.cmp = "filled" -> Met(~isEmpty(h, value), rx)
      [] condition.cmp = "empty" -> Met(isEmpty(h, value), rx)
      [] condition.cmp \in {"in", "not_in"} ->
            IF condition.expected.t # "list"
            THEN Thrown(JsError("TypeError"), rx)
            ELSE Met(ListIncludes(condition.expected.v, value)
                        = (condition.cmp = "in"),
                     rx)
      [] OTHER ->
            Met(compare(h, value, condition.cmp, condition.expected), rx)

\* the condition that a rule set leaves out: undefined
NoCondition == Cond("undefined", <<>>, "", Undefined, <<>>)

RECURSIVE evaluateCondition(_, _, _, _, _)
RECURSIVE evalEvery(_, _, _, _, _, _)
RECURSIVE evalSome(_, _, _, _, _, _)
\* evaluateCondition with a field condition that compares the value under
\* validation where the code compares the value at the path
evaluateConditionOnValue(h, rx, condition, currentValue, allData) ==
    IF condition.op = "undefined" THEN Thrown(JsError("TypeError"), rx)
    ELSE IF condition.op = "and"
    THEN evalEvery(h, rx, condition.subs, 1, currentValue, allData)
    ELSE IF condition.op = "or"
    THEN evalSome(h, rx, condition.subs, 1, currentValue, allData)
    ELSE IF condition.op # "field"
    THEN evaluateSelfCondition(h, rx, condition, currentValue)
    ELSE Met(compare(h, currentValue, condition.cmp, condition.expected), rx)

\* evaluateCondition(condition, currentValue, allData, _currentField);
\* reading condition[0] throws when the condition is undefined
evaluateCondition(h, rx, condition, currentValue, allData) ==
    IF condition.op = "undefined" THEN Thrown(JsError("TypeError"), rx)
    ELSE IF condition.op = "and"
    THEN evalEvery(h, rx, condition.subs, 1, currentValue, allData)
    ELSE IF condition.op = "or"
    THEN evalSome(h, rx, condition.subs, 1, currentValue, allData)
    ELSE IF condition.op # "field"
    THEN evaluateSelfCondition(h, rx, condition, currentValue)
    ELSE evaluateFieldCondition(h, rx, condition, allData)

\* the outcome of a conjunction whose head gave `res` and whose tail gave
\* the outcome `rest`
conjoined(res, rest) == [rest EXCEPT !.res = res /\ rest.res]

RECURSIVE evalEveryEager(_, _, _, _, _, _)
\* every over subs[i..] written as a loop that calls the callback on each
\* element and conjoins the outcomes (no stop at the first false)
evalEveryEager(h, rx, subs, i, currentValue, allData) ==
    IF i > Len(subs) THEN Met(TRUE, rx)
    ELSE LET r == evaluateCondition(h, rx, subs[i], currentValue, allData)
         IN IF r.thrown # NoException THEN r
            ELSE conjoined(r.res,
                           evalEveryEager(h, r.rx, subs, i + 1, currentValue,
                                          allData))

\* Array.prototype.every over subs[i..]
evalEvery(h, rx, subs, i, currentValue, allData) ==
    IF i > Len(subs) THEN Met(TRUE, rx)
    ELSE LET r == evaluateCondition(h, rx, subs[i], currentValue, allData)
         IN IF r.thrown # NoException \/ ~r.res THEN r
            ELSE evalEvery(h, r.rx, subs, i + 1, currentValue, allData)

\* Array.prototype.some over subs[i..]
evalSome(h, rx, subs, i, currentValue, allData) ==
    IF i > Len(subs) THEN Met(FALSE, rx)
    ELSE LET r == evaluateCondition(h, rx, subs[i], currentValue, allData)
         IN IF r.thrown # NoException \/ r.res THEN r
            ELSE evalSome(h, r.rx, subs, i + 1, currentValue, allData)

\* ------------------------------------------------------------------------
\* Rule handlers (rules/presence.ts, rules/type-checks.ts, rules/string.ts)
\* ------------------------------------------------------------------------
\* A handler is [name, validate, skipIfEmpty, bailOnFailure]; validate names
\* the function of the handler object and an optional flag is "true",
\* "false" or "unset".  The validate of a built-in handler is named as the
\* handler is.
Handler(name, skipIfEmpty, bailOnFailure) ==
    [name |-> name, validate |-> name, skipIfEmpty |-> skipIfEmpty,
     bailOnFailure |-> bailOnFailure]

\* a handler written by the caller
CustomHandler(name, validate, skipIfEmpty, bailOnFailure) ==
    [name |-> name, validate |-> validate, skipIfEmpty |-> skipIfEmpty,
     bailOnFailure |-> bailOnFailure]

requiredRule == Handler("required", "false", "true")
nullableRule == Handler("nullable", "false", "false")
filledRule == Handler("filled", "false", "true")
presentRule == Handler("present", "false", "true")
stringRule == Handler("string", "unset", "unset")
integerRule == Handler("integer", "unset", "unset")
arrayRule == Handler("array", "unset", "unset")
minRule == Handler("min", "unset", "unset")
regexRule == Handler("regex", "unset", "unset")

\* a ValidationError {key, params}; params is a list of <<name, value>>
Error(key, params) == [key |-> key, params |-> params]
\* the null a handler returns when the value passes
NoError == Error("", <<>>)

\* requiredRule.validate
requiredValidate(h, value, field) ==
    IF isEmpty(h, value)
    THEN Error("validation.required", <<<<"field", field>>>>)
    ELSE NoError

\* nullableRule.validate
nullableValidate(h, value, field) == NoError

\* filledRule.validate
filledValidate(h, value, field) ==
    IF value = Undefined THEN NoError
    ELSE IF isEmpty(h, value)
    THEN Error("validation.filled", <<<<"field", field>>>>)
    ELSE NoError

\* presentRule.validate
presentValidate(h, value, field) ==
    IF value = Undefined
    THEN Error("validation.present", <<<<"field", field>>>>)
    ELSE NoError

\* stringRule.validate
stringValidate(h, value, field) ==
    IF TypeOf(value) # "string"
    THEN Error("validation.string", <<<<"field", field>>>>)
    ELSE NoError

\* integerRule.validate: a string passes when parseInt(value).toString()
\* is value.trim(), that is when it trims to a canonical decimal integer
integerValidate(h, value, field) ==
    IF value.t = "string" /\ IsArrayIndex(Trim(value.v)) THEN NoError
    ELSE IF value.t = "number" THEN NoError
    ELSE Error("validation.integer", <<<<"field", field>>>>)

\* arrayRule.validate
arrayValidate(h, value, field) ==
    IF ~IsArray(h, value)
    THEN Error("validation.array", <<<<"field", field>>>>)
    ELSE NoError

\* minRule.validate: a string that trims to digits is compared as a number,
\* any other string by its length (the string values of the model hold no
\* sign and no fraction)
minValidate(h, value, params, field) ==
    LET min == params[1].v IN
    IF value.t = "string"
    THEN IF IsDigits(Trim(value.v))
         THEN IF StrToNat(Trim(value.v)) < min
              THEN Error("validation.min.numeric",
                         <<<<"field", field>>, <<"min", min>>,
                           <<"actual", StrToNat(Trim(value.v))>>>>)
              ELSE NoError
         ELSE IF Len(value.v) < min
              THEN Error("validation.min.string",
                         <<<<"field", field>>, <<"min", min>>,
                           <<"actual", Len(value.v)>>>>)
              ELSE NoError
    ELSE IF value.t = "number"
    THEN IF value.v < min
         THEN Error("validation.min.numeric",
                    <<<<"field", field>>, <<"min", min>>,
                      <<"actual", value.v>>>>)
         ELSE NoError
    ELSE IF IsArray(h, value)
    THEN IF ArrayLength(h, value.v) < min
         THEN Error("validation.min.array",
                    <<<<"field", field>>, <<"min", min>>,
                      <<"actual", ArrayLength(h, value.v)>>>>)
         ELSE NoError
    ELSE NoError

\* regexRule.validate: the error, the regex store after the call and the
\* exception thrown
regexValidate(rx, value, params, field) ==
    IF value.t # "string"
    THEN [error |-> Error("validation.regex", <<<<"field", field>>>>),
          rx |-> rx, thrown |-> NoException]
    ELSE LET r == PatternTest(rx, params[1], value.v)
         IN [error |-> IF r.thrown = NoException /\ ~r.matched
                       THEN Error("validation.regex", <<<<"field", field>>>>)
                       ELSE NoError,
             rx |-> r.rx, thrown |-> r.thrown]

\* the validate of a custom rule that fails on every value
rejectValidate(field) == Error("validation.my_rule", <<<<"field", field>>>>)

\* handler.validate(value, params, allData, field): the error (or NoError),
\* the regex store after the call and the exception thrown
HandlerValidate(h, rx, handler, value, params, field) ==
    CASE handler.validate = "required" ->
            [error |-> requiredValidate(h, value, field), rx |-> rx,
             thrown |-> NoException]
      [] handler.validate = "nullable" ->
            [error |-> nullableValidate(h, value, field), rx |-> rx,
             thrown |-> NoException]
      [] handler.validate = "filled" ->
            [error |-> filledValidate(h, value, field), rx |-> rx,
             thrown |-> NoException]
      [] handler.validate = "present" ->
            [error |-> presentValidate(h, value, field), rx |-> rx,
             thrown |-> NoException]
      [] handler.validate = "string" ->
            [error |-> stringValidate(h, value, field), rx |-> rx,
             thrown |-> NoException]
      [] handler.validate = "integer" ->
            [error |-> integerValidate(h, value, field), rx |-> rx,
             thrown |-> NoException]
      [] handler.validate = "array" ->
            [error |-> arrayValidate(h, value, field), rx |-> rx,
             thrown |-> NoException]
      [] handler.validate = "min" ->
            [error |-> minValidate(h, value, params, field), rx |-> rx,
             thrown |-> NoException]
      [] handler.validate = "regex" -> regexValidate(rx, value, params, field)
      [] handler.validate = "reject" ->
            [error |-> rejectValidate(field), rx |-> rx,
             thrown |-> NoException]
      [] handler.validate = "accept" ->
            [error |-> NoError, rx |-> rx,
             thrown |-> NoException]

\* ------------------------------------------------------------------------
\* rules/index.ts: the registry
\* ------------------------------------------------------------------------
builtInRules ==
    <<requiredRule, nullableRule, filledRule, presentRule, stringRule,
      integerRule, arrayRule, minRule, regexRule>>

\* the registry after the module has registered the built-in rules
ruleRegistry ==
    [name \in {builtInRules[i].name : i \in 1..Len(builtInRules)} |->
        LET i == CHOOSE j \in 1..Len(builtInRules) :
                     builtInRules[j].name = name
        IN builtInRules[i]]

\* getRule(name) is defined
hasRule(registry, name) == name \in DOMAIN registry

\* getRule(name), for a registered name
getRule(registry, name) == registry[name]

\* ------------------------------------------------------------------------
\* parser.ts
\* ------------------------------------------------------------------------
\* A rule as authored:
\*   'name'                          Simple(name)
\*   [name, ...params]               Parameterized(name, params)
\*   ['when', condition, then]       When(condition, then)
\*   ['when', condition, then, else] WhenElse(condition, then, else)
Simple(name) == [shape |-> "string", name |-> name, params |-> <<>>]
Parameterized(name, params) ==
    [shape |-> "array", name |-> name, params |-> params]
When(condition, thenRules) ==
    [shape |-> "when", condition |-> condition, thenRules |-> thenRules,
     hasElse |-> FALSE, elseRules |-> <<>>]
WhenElse(condition, thenRules, elseRules) ==
    [shape |-> "when", condition |-> condition, thenRules |-> thenRules,
     hasElse |-> TRUE, elseRules |-> elseRules]

\* a rule that is neither a string nor an array: the object {}
NotARule == [shape |-> "object", name |-> "[object Object]", params |-> <<>>]

MAX_LENGTH == 1024
\* the characters that NAME_PATTERN admits first, and after the first
NameStart ==
    {"a", "b", "c", "d", "e", "f", "g", "h", "i", "j", "k", "l", "m", "n",
     "o", "p", "q", "r", "s", "t", "u", "v", "w", "x", "y", "z"}
NameRest == NameStart \cup DigitSet \cup {"_"}
\* NAME_PATTERN.test(text), NAME_PATTERN being /^[a-z][a-z0-9_]*$/
NAME_PATTERN(text) ==
    /\ Len(text) >= 1
    /\ text[1] \in NameStart
    /\ \A i \in 2..Len(text) : text[i] \in NameRest

\* The characters of the rule names of the model.  "a1024" and "a1025"
\* stand for the names made of 1024 and of 1025 letters a.
RuleNameText ==
    ("required" :> <<"r", "e", "q", "u", "i", "r", "e", "d">>)
       @@ ("nullable" :> <<"n", "u", "l", "l", "a", "b", "l", "e">>)
       @@ ("filled" :> <<"f", "i", "l", "l", "e", "d">>)
       @@ ("present" :> <<"p", "r", "e", "s", "e", "n", "t">>)
       @@ ("string" :> <<"s", "t", "r", "i", "n", "g">>)
       @@ ("integer" :> <<"i", "n", "t", "e", "g", "e", "r">>)
       @@ ("array" :> <<"a", "r", "r", "a", "y">>)
       @@ ("min" :> <<"m", "i", "n">>)
       @@ ("regex" :> <<"r", "e", "g", "e", "x">>)
       @@ ("my_rule" :> <<"m", "y", "_", "r", "u", "l", "e">>)
       @@ ("when" :> <<"w", "h", "e", "n">>)
       @@ ("Upper" :> <<"U", "p", "p", "e", "r">>)
       @@ ("a-b" :> <<"a", "-", "b">>)
       @@ ("9a" :> <<"9", "a">>)
       @@ ("" :> <<>>)
       @@ ("a1024" :> [i \in 1..MAX_LENGTH |-> "a"])
       @@ ("a1025" :> [i \in 1..(MAX_LENGTH + 1) |-> "a"])

\* validateRuleName(name): the exception thrown, or NoException
validateRuleName(name) ==
    IF Len(RuleNameText[name]) > MAX_LENGTH
    THEN InvalidRuleNameException(name, "length")
    ELSE IF ~NAME_PATTERN(RuleNameText[name])
    THEN InvalidRuleNameException(name, "pattern")
    ELSE NoException

\* the name and the params that parseSimpleRule reads from a rule: a 'when'
\* tuple is an array whose first element is 'when'
nameOf(rule) == IF rule.shape = "when" THEN "when" ELSE rule.name
paramsOf(rule) ==
    IF rule.shape # "when" THEN rule.params
    ELSE IF rule.hasElse
    THEN <<rule.condition, rule.thenRules, rule.elseRules>>
    ELSE <<rule.condition, rule.thenRules>>

\* parseSimpleRule looking the name up before it validates it: a registered
\* name is not validated
parseSimpleRuleLookupFirst(registry, rule) ==
    IF rule.shape \notin {"string", "array", "when"}
    THEN Throw(InvalidRuleNameException(rule.name, "format"))
    ELSE IF hasRule(registry, nameOf(rule))
    THEN Return([type |-> "rule", name |-> nameOf(rule),
                 params |-> paramsOf(rule),
                 handler |-> getRule(registry, nameOf(rule))])
    ELSE IF validateRuleName(nameOf(rule)) # NoException
    THEN Throw(validateRuleName(nameOf(rule)))
    ELSE Throw(UnknownRuleException(nameOf(rule)))

\* parseSimpleRule(rule)
parseSimpleRule(registry, rule) ==
    IF rule.shape \notin {"string", "array", "when"}
    THEN Throw(InvalidRuleNameException(rule.name, "format"))
    ELSE IF validateRuleName(nameOf(rule)) # NoException
    THEN Throw(validateRuleName(nameOf(rule)))
    ELSE IF ~hasRule(registry, nameOf(rule))
    THEN Throw(UnknownRuleException(nameOf(rule)))
    ELSE Return([type |-> "rule", name |-> nameOf(rule),
                 params |-> paramsOf(rule),
                 handler |-> getRule(registry, nameOf(rule))])

RECURSIVE mapParseSimpleRule(_, _, _, _)
\* list.map(r => parseSimpleRule(r)) from element i on, acc holding the
\* results so far
mapParseSimpleRule(registry, list, i, acc) ==
    IF i > Len(list) THEN Return(acc)
    ELSE IF parseSimpleRule(registry, list[i]).thrown # NoException
    THEN parseSimpleRule(registry, list[i])
    ELSE mapParseSimpleRule(registry, list, i + 1,
             Append(acc, parseSimpleRule(registry, list[i]).value))

\* the object that parseRule returns for a conditional rule, t and e being
\* the outcomes of the two maps
conditionalOf(rule, t, e) ==
    IF t.thrown # NoException THEN t
    ELSE IF e.thrown # NoException THEN e
    ELSE Return([type |-> "conditional",
                 condition |-> rule.condition,
                 thenRules |-> t.value,
                 hasElse |-> rule.hasElse,
                 elseRules |-> e.value])

\* parseRule(rule)
parseRule(registry, rule) ==
    IF rule.shape = "when"
    THEN conditionalOf(rule,
             mapParseSimpleRule(registry, rule.thenRules, 1, <<>>),
             IF rule.hasElse
             THEN mapParseSimpleRule(registry, rule.elseRules, 1, <<>>)
             ELSE Return(<<>>))
    ELSE parseSimpleRule(registry, rule)

RECURSIVE mapParseRule(_, _, _, _)
\* rules.map(parseRule) from element i on
mapParseRule(registry, fieldRules, i, acc) ==
    IF i > Len(fieldRules) THEN Return(acc)
    ELSE IF parseRule(registry, fieldRules[i]).thrown # NoException
    THEN parseRule(registry, fieldRules[i])
    ELSE mapParseRule(registry, fieldRules, i + 1,
             Append(acc, parseRule(registry, fieldRules[i]).value))

\* parseFieldRules(rules)
parseFieldRules(registry, fieldRules) ==
    mapParseRule(registry, fieldRules, 1, <<>>)

RECURSIVE parseRulesFrom(_, _, _, _)
\* the loop of parseRules over the entries rs[i..], parsed being the Map as
\* a sequence of <<field, items>> pairs
parseRulesFrom(registry, rs, i, parsed) ==
    IF i > Len(rs) THEN Return(parsed)
    ELSE IF parseFieldRules(registry, rs[i][2]).thrown # NoException
    THEN parseFieldRules(registry, rs[i][2])
    ELSE parseRulesFrom(registry, rs, i + 1,
             Append(parsed,
                    <<rs[i][1], parseFieldRules(registry, rs[i][2]).value>>))

\* parseRules(rules)
parseRules(registry, rs) == parseRulesFrom(registry, rs, 1, <<>>)

\* hasNullableRule looking into the branches of the conditional items too
hasNullableRuleDeep(parsedRules) ==
    \E i \in 1..Len(parsedRules) :
        \/ parsedRules[i].type = "rule" /\ parsedRules[i].name = "nullable"
        \/ /\ parsedRules[i].type = "conditional"
           /\ \/ \E n \in 1..Len(parsedRules[i].thenRules) :
                    parsedRules[i].thenRules[n].name = "nullable"
              \/ \E n \in 1..Len(parsedRules[i].elseRules) :
                    parsedRules[i].elseRules[n].name = "nullable"

\* hasNullableRule(parsedRules)
hasNullableRule(parsedRules) ==
    \E i \in 1..Len(parsedRules) :
        parsedRules[i].type = "rule" /\ parsedRules[i].name = "nullable"

\* isConditionalRule(item)
isConditionalRule(item) == item.type = "conditional"

\* ------------------------------------------------------------------------
\* validator.ts: the rule walk of one field
\* ------------------------------------------------------------------------
\* The walk threads a record st = [rx, log, thrown]: the regex store, the
\* list of the handler invocations and condition evaluations of the walk,
\* and the exception that a handler or a condition threw (it ends the walk
\* and the call of validate).
\*   ev = "invoke": handler.validate was called for rule `name`, the pos-th
\*       rule of list `list` ("then" or "else") of top-level item `item`, or
\*       the item itself (list = "top", pos = 0); error is what the
\*       handler returned
\*   ev = "cond": the condition of item `item` was evaluated; list is the
\*       branch chosen: "then", "else", or "none" ("throw" when the
\*       evaluation threw)
Event(ev, item, pos, list, name, error) ==
    [ev |-> ev, item |-> item, pos |-> pos, list |-> list, name |-> name,
     error |-> error]

\* the walk has not started: nothing is logged, nothing thrown
WalkStart(rx) == [rx |-> rx, log |-> <<>>, thrown |-> NoException]

\* the threaded state after handler.validate ended with
\* r = [error, rx, thrown]
\* handler is the handler object whose validate was called
invoked(st, r, item, pos, list, name, handler) ==
    [error |-> r.error,
     st |-> [rx |-> r.rx,
             log |-> Append(st.log,
                            [handler |-> handler] @@
                            Event("invoke", item, pos, list, name, r.error)),
             thrown |-> r.thrown]]

\* the registry as registerRule leaves it: name -> handler
VARIABLE registry

\* validateSimpleRule reading the handler from the registry at the time of
\* the call (getRule(rule.name)) instead of the reference the parser stored
validateSimpleRuleLateLookup(h, st, field, value, rule, item, pos, list) ==
    IF getRule(registry, rule.name).skipIfEmpty # "false" /\ isEmpty(h, value)
    THEN [error |-> NoError, st |-> st]
    ELSE invoked(st,
                 HandlerValidate(h, st.rx, getRule(registry, rule.name),
                                 value, rule.params, field),
                 item, pos, list, rule.name, getRule(registry, rule.name))

\* validateSimpleRule with the skip test written handler.skipIfEmpty === true
\* (an unset flag no longer means skip)
validateSimpleRuleSkipSet(h, st, field, value, rule, item, pos, list) ==
    IF rule.handler.skipIfEmpty = "true" /\ isEmpty(h, value)
    THEN [error |-> NoError, st |-> st]
    ELSE invoked(st,
                 HandlerValidate(h, st.rx, rule.handler, value, rule.params,
                                 field),
                 item, pos, list, rule.name, rule.handler)

\* validateSimpleRule(field, value, allData, rule): the error (or NoError)
\* and the threaded state
validateSimpleRule(h, st, field, value, rule, item, pos, list) ==
    IF rule.handler.skipIfEmpty # "false" /\ isEmpty(h, value)
    THEN [error |-> NoError, st |-> st]
    ELSE invoked(st,
                 HandlerValidate(h, st.rx, rule.handler, value, rule.params,
                                 field),
                 item, pos, list, rule.name, rule.handler)

RECURSIVE branchLoop(_, _, _, _, _, _, _, _, _)
RECURSIVE branchAfterRule(_, _, _, _, _, _, _, _, _)
\* the loop of validateConditionalRule over rulesToApply[pos..]
branchLoop(h, st, field, value, rulesToApply, item, pos, list, errors) ==
    IF pos > Len(rulesToApply) THEN [errors |-> errors, st |-> st]
    ELSE branchAfterRule(h, validateSimpleRule(h, st, field, value,
                                rulesToApply[pos], item, pos, list),
                         field, value, rulesToApply, item, pos, list, errors)

\* the rest of one iteration of that loop, r being the outcome of
\* validateSimpleRule
branchAfterRule(h, r, field, value, rulesToApply, item, pos, list, errors) ==
    IF r.st.thrown # NoException THEN [errors |-> errors, st |-> r.st]
    ELSE IF r.error # NoError
    THEN IF rulesToApply[pos].handler.bailOnFailure = "true"
         THEN [errors |-> Append(errors, r.error), st |-> r.st]
         ELSE branchLoop(h, r.st, field, value, rulesToApply, item, pos + 1,
                         list, Append(errors, r.error))
    ELSE branchLoop(h, r.st, field, value, rulesToApply, item, pos + 1,
                    list, errors)

\* the threaded state after the condition of an item was evaluated to c
condEvaluated(st, c, rule, item) ==
    [rx |-> c.rx,
     log |-> Append(st.log,
                 Event("cond", item, 0,
                       IF c.thrown # NoException THEN "throw"
                       ELSE IF c.res THEN "then"
                       ELSE IF rule.hasElse THEN "else" ELSE "none",
                       "when", NoError)),
     thrown |-> c.thrown]

\* applyBranch with the two branches exchanged
\* (conditionMet ? rule.elseRules : rule.thenRules)
applyBranchExchanged(h, st, c, field, value, rule, item) ==
    IF c.thrown # NoException
    THEN [errors |-> <<>>, st |-> condEvaluated(st, c, rule, item)]
    ELSE IF ~c.res
    THEN branchLoop(h, condEvaluated(st, c, rule, item),
                    field, value, rule.thenRules, item, 1, "then", <<>>)
    ELSE IF rule.hasElse
    THEN branchLoop(h, condEvaluated(st, c, rule, item),
                    field, value, rule.elseRules, item, 1, "else", <<>>)
    ELSE [errors |-> <<>>, st |-> condEvaluated(st, c, rule, item)]

\* the part of validateConditionalRule that follows evaluateCondition, c
\* being its outcome: rulesToApply is chosen and run
applyBranch(h, st, c, field, value, rule, item) ==
    IF c.thrown # NoException
    THEN [errors |-> <<>>, st |-> condEvaluated(st, c, rule, item)]
    ELSE IF c.res
    THEN branchLoop(h, condEvaluated(st, c, rule, item),
                    field, value, rule.thenRules, item, 1, "then", <<>>)
    ELSE IF rule.hasElse
    THEN branchLoop(h, condEvaluated(st, c, rule, item),
                    field, value, rule.elseRules, item, 1, "else", <<>>)
    ELSE [errors |-> <<>>, st |-> condEvaluated(st, c, rule, item)]

\* validateConditionalRule(field, value, allData, rule)
validateConditionalRule(h, st, field, value, allData, rule, item) ==
    applyBranch(h, st,
                evaluateCondition(h, st.rx, rule.condition, value, allData),
                field, value, rule, item)

RECURSIVE fieldLoop(_, _, _, _, _, _, _, _)
RECURSIVE fieldAfterRule(_, _, _, _, _, _, _, _)
RECURSIVE fieldAfterConditional(_, _, _, _, _, _, _, _)
\* the loop of validateField over rules[item..]
fieldLoop(h, st, field, value, allData, rules, item, errors) ==
    IF item > Len(rules) THEN [errors |-> errors, st |-> st]
    ELSE IF isConditionalRule(rules[item])
    THEN fieldAfterConditional(h, validateConditionalRule(h, st, field,
                                      value, allData, rules[item], item),
                               field, value, allData, rules, item, errors)
    ELSE fieldAfterRule(h, validateSimpleRule(h, st, field, value,
                                              rules[item], item, 0, "top"),
                        field, value, allData, rules, item, errors)

\* fieldAfterConditional with the bail logic that the code leaves out: the
\* field's list stops when the branch gave an error
fieldAfterConditionalBail(h, r, field, value, allData, rules, item, errors) ==
    IF r.st.thrown # NoException THEN [errors |-> errors, st |-> r.st]
    ELSE IF Len(r.errors) > 0
    THEN [errors |-> errors \o r.errors, st |-> r.st]
    ELSE fieldLoop(h, r.st, field, value, allData, rules, item + 1, errors)

\* fieldAfterConditional with the errors of the branch put before the errors
\* collected so far (errors.unshift(...condErrors))
fieldAfterConditionalFirst(h, r, field, value, allData, rules, item, errors) ==
    IF r.st.thrown # NoException THEN [errors |-> errors, st |-> r.st]
    ELSE fieldLoop(h, r.st, field, value, allData, rules, item + 1,
                   r.errors \o errors)

\* the rest of one iteration for a conditional item, r being the outcome of
\* validateConditionalRule
fieldAfterConditional(h, r, field, value, allData, rules, item, errors) ==
    IF r.st.thrown # NoException THEN [errors |-> errors, st |-> r.st]
    ELSE fieldLoop(h, r.st, field, value, allData, rules, item + 1,
                   errors \o r.errors)

\* fieldAfterRule without the break on bailOnFailure
fieldAfterRuleNoBail(h, r, field, value, allData, rules, item, errors) ==
    IF r.st.thrown # NoException THEN [errors |-> errors, st |-> r.st]
    ELSE IF r.error # NoError
    THEN fieldLoop(h, r.st, field, value, allData, rules, item + 1,
                   Append(errors, r.error))
    ELSE fieldLoop(h, r.st, field, value, allData, rules, item + 1, errors)

\* the rest of one iteration for a simple item, r being the outcome of
\* validateSimpleRule
fieldAfterRule(h, r, field, value, allData, rules, item, errors) ==
    IF r.st.thrown # NoException THEN [errors |-> errors, st |-> r.st]
    ELSE IF r.error # NoError
    THEN IF rules[item].handler.bailOnFailure = "true"
         THEN [errors |-> Append(errors, r.error), st |-> r.st]
         ELSE fieldLoop(h, r.st, field, value, allData, rules, item + 1,
                        Append(errors, r.error))
    ELSE fieldLoop(h, r.st, field, value, allData, rules, item + 1, errors)

\* validateField without the nullable short-circuit
validateFieldNoNullable(h, st, field, value, allData, rules) ==
    fieldLoop(h, st, field, value, allData, rules, 1, <<>>)

\* validateField(field, value, allData, rules): the error list and the
\* threaded state
validateField(h, st, field, value, allData, rules) ==
    IF hasNullableRule(rules) /\ isEmpty(h, value)
    THEN [errors |-> <<>>, st |-> st]
    ELSE fieldLoop(h, st, field, value, allData, rules, 1, <<>>)

\* ------------------------------------------------------------------------
\* Trees: containers by value
\* ------------------------------------------------------------------------
\* A tree is a primitive value or [t |-> "tree", v |-> [kind, ents]] whose
\* ents are <<key, tree>> pairs.  Build allocates a tree in a heap; Snapshot
\* reads the tree below a value back (what a deep comparison sees).
ObjectTree(ents) == [t |-> "tree", v |-> [kind |-> "object", ents |-> ents]]
ArrayTree(items) ==
    [t |-> "tree",
     v |-> [kind |-> "array",
            ents |-> [i \in 1..Len(items) |-> <<NatToStr(i - 1), items[i]>>]]]

RECURSIVE Build(_, _)
RECURSIVE BuildEnts(_, _, _, _)
Build(h, tree) ==
    IF tree.t # "tree" THEN [h |-> h, v |-> tree]
    ELSE LET h1 == Alloc(h, [kind |-> tree.v.kind, ents |-> <<>>, length |-> 0])
         IN [h |-> BuildEnts(h1, Len(h1), tree.v.ents, 1), v |-> Ref(Len(h1))]

BuildEnts(h, id, ents, i) ==
    IF i > Len(ents) THEN h
    ELSE LET r == Build(h, ents[i][2])
         IN BuildEnts(SetProp(r.h, id, ents[i][1], r.v), id, ents, i + 1)

RECURSIVE Snapshot(_, _)
Snapshot(h, val) ==
    IF val.t # "ref" THEN val
    ELSE [t |-> "tree",
          v |-> [kind |-> h[val.v].kind,
                 ents |-> [i \in 1..Len(h[val.v].ents) |->
                              <<h[val.v].ents[i][1],
                                Snapshot(h, h[val.v].ents[i][2])>>]]]

\* ------------------------------------------------------------------------
\* The rule sets and the records of the model
\* ------------------------------------------------------------------------
\* field names are one character long: a, b, c, k, n, t, u
Path1(x) == <<x>>
Path2(x, y) == <<x, ".", y>>
Path3(x, y, z) == <<x, ".", y, ".", z>>

\* the RegExp objects held by the rule sets: /x/g and /x/
RegExps ==
    <<[source |-> <<"x">>, global |-> TRUE, lastIndex |-> 0],
      [source |-> <<"x">>, global |-> FALSE, lastIndex |-> 0]>>

\* The rule sets a Validator is constructed with.  Each one is the list of
\* the <<field pattern, rules>> entries of a Rules object, in Object.entries
\* order.
\* a: ['required', 'string', ['min', 5]]
RequiredStringMin ==
    <<<<Path1("a"), <<Simple("required"), Simple("string"),
                      Parameterized("min", <<Num(5)>>)>>>>>>

\* a: ['nullable', 'integer']
NullableInteger ==
    <<<<Path1("a"), <<Simple("nullable"), Simple("integer")>>>>>>

\* a: ['required'], c: [['when', ['a', '=', 'b'], ['required']]]
\* (a is the type, 'b' is business, c is the company name)
WhenBusinessRequired ==
    <<<<Path1("a"), <<Simple("required")>>>>,
      <<Path1("c"), <<When(FieldCond(Path1("a"), "=", Str(<<"b">>)),
                           <<Simple("required")>>)>>>>>>

RuleSets ==
    <<RequiredStringMin, NullableInteger, WhenBusinessRequired,
      \* a: ['required', 'nullable', 'integer']
      <<<<Path1("a"), <<Simple("required"), Simple("nullable"),
                        Simple("integer")>>>>>>,
      \* a: ['string', 'required', 'integer']
      <<<<Path1("a"), <<Simple("string"), Simple("required"),
                        Simple("integer")>>>>>>,
      \* a: ['string', ['when', ['@empty'], ['string', 'required'],
      \*                             ['string', ['min', 5]]],
      \*     'present', 'integer']
      <<<<Path1("a"), <<Simple("string"),
                        WhenElse(SelfCond("@empty", "", Undefined),
                                 <<Simple("string"), Simple("required")>>,
                                 <<Simple("string"),
                                   Parameterized("min", <<Num(5)>>)>>),
                        Simple("present"), Simple("integer")>>>>>>,
      \* a: ['required', ['when', ['@empty'], ['nullable']], 'integer']
      <<<<Path1("a"), <<Simple("required"),
                        When(SelfCond("@empty", "", Undefined),
                             <<Simple("nullable")>>),
                        Simple("integer")>>>>>>,
      \* a: [['when', ['@filled'], ['string']], 'present']
      <<<<Path1("a"), <<When(SelfCond("@filled", "", Undefined),
                             <<Simple("string")>>),
                        Simple("present")>>>>>>,
      \* c: [['when', ['a', 'empty'], ['required'], ['string']]]
      <<<<Path1("c"), <<WhenElse(FieldCond(Path1("a"), "empty", Undefined),
                                 <<Simple("required")>>,
                                 <<Simple("string")>>)>>>>>>,
      \* c: [['when', ['a', 'filled'], ['required', 'string'], ['nullable']]]
      <<<<Path1("c"), <<WhenElse(FieldCond(Path1("a"), "filled", Undefined),
                                 <<Simple("required"), Simple("string")>>,
                                 <<Simple("nullable")>>)>>>>>>,
      \* u: [], 'u.n': ['string']
      <<<<Path1("u"), <<>>>>, <<Path2("u", "n"), <<Simple("string")>>>>>>,
      \* 'u.a.b': [], u: []
      <<<<Path3("u", "a", "b"), <<>>>>, <<Path1("u"), <<>>>>>>,
      \* u: [], 'u.a.b': []
      <<<<Path1("u"), <<>>>>, <<Path3("u", "a", "b"), <<>>>>>>,
      \* a: [], 'a.b': []
      <<<<Path1("a"), <<>>>>, <<Path2("a", "b"), <<>>>>>>,
      \* 'a.b': [], a: []
      <<<<Path2("a", "b"), <<>>>>, <<Path1("a"), <<>>>>>>,
      \* 't.*': ['required', 'string']
      <<<<Path2("t", "*"), <<Simple("required"), Simple("string")>>>>>>,
      \* t: ['array'], 't.*': ['string']
      <<<<Path1("t"), <<Simple("array")>>>>,
        <<Path2("t", "*"), <<Simple("string")>>>>>>,
      \* '*': ['required']
      <<<<Path1("*"), <<Simple("required")>>>>>>,
      \* a: [['when', ['@empty'], ['nullable']], 'required']
      <<<<Path1("a"), <<When(SelfCond("@empty", "", Undefined),
                             <<Simple("nullable")>>),
                        Simple("required")>>>>>>,
      \* 't.0': ['integer'], 't.*': [['min', 5]]
      <<<<Path2("t", "0"), <<Simple("integer")>>>>,
        <<Path2("t", "*"), <<Parameterized("min", <<Num(5)>>)>>>>>>,
      \* a: [['regex', /x/g]]
      <<<<Path1("a"), <<Parameterized("regex", <<RegExpRef(1)>>)>>>>>>,
      \* a: [['regex', /x/]]
      <<<<Path1("a"), <<Parameterized("regex", <<RegExpRef(2)>>)>>>>>>,
      \* a: [['regex', 'x']]
      <<<<Path1("a"), <<Parameterized("regex", <<Str(<<"x">>)>>)>>>>>>,
      \* a: [['when', ['@matches', /x/g], ['integer']]]
      <<<<Path1("a"), <<When(SelfCond("@matches", "", RegExpRef(1)),
                             <<Simple("integer")>>)>>>>>>,
      \* a: [['when', ['@empty'], ['required', 'present']], 'present',
      \*     'integer']
      <<<<Path1("a"), <<When(SelfCond("@empty", "", Undefined),
                             <<Simple("required"), Simple("present")>>),
                        Simple("present"), Simple("integer")>>>>>>,
      \* a: [['when', ['@filled'], ['integer'], ['filled', 'required']],
      \*     ['when', ['@empty'], ['present']], 'required']
      <<<<Path1("a"), <<WhenElse(SelfCond("@filled", "", Undefined),
                                 <<Simple("integer")>>,
                                 <<Simple("filled"), Simple("required")>>),
                        When(SelfCond("@empty", "", Undefined),
                             <<Simple("present")>>),
                        Simple("required")>>>>>> >>

\* the values given to field a
AValues ==
    {Null, Undefined, Str(<<>>), Str(<<" ">>), Str(<<" ", " ">>),
     Str(<<"x">>), Str(<<" ", "x">>), Str(<<"5">>), Str(<<"x", "x">>),
     Num(0), Num(5), Bool(FALSE),
     ArrayTree(<<>>), ArrayTree(<<Str(<<"x">>)>>), ObjectTree(<<>>),
     ObjectTree(<<<<Path1("b"), Str(<<"x">>)>>>>)}

Records ==
    {ObjectTree(<<>>)}
    \cup {ObjectTree(<<<<Path1("a"), val>>>>) : val \in AValues}
    \cup {ObjectTree(<<<<Path1("a"), Str(x)>>, <<Path1("c"), Str(y)>>>>) :
            x \in {<<"b">>, <<"p">>, <<>>}, y \in {<<>>, <<"x">>}}
    \cup {ObjectTree(<<<<Path1("c"), Str(y)>>>>) : y \in {<<>>, <<"x">>}}
    \cup {ObjectTree(<<<<Path1("u"), val>>>>) :
            val \in {Null, Str(<<"x">>), ObjectTree(<<>>),
                     ObjectTree(<<<<Path1("n"), Str(<<"x">>)>>>>),
                     ObjectTree(<<<<Path1("n"), Num(5)>>>>),
                     ObjectTree(<<<<Path1("a"), Str(<<"x">>)>>>>),
                     ObjectTree(<<<<Path1("a"),
                         ObjectTree(<<<<Path1("b"), Str(<<"x">>)>>>>)>>>>)}}
    \cup {ObjectTree(<<<<Path1("t"), val>>>>) :
            val \in {Str(<<"x">>), ArrayTree(<<>>),
                     ArrayTree(<<Str(<<"x">>)>>),
                     ArrayTree(<<Str(<<"x">>), Str(<<>>)>>),
                     ArrayTree(<<Str(<<"x">>), Num(5)>>),
                     ObjectTree(<<<<Path1("k"), Str(<<"x">>)>>>>)}}

\* ------------------------------------------------------------------------
\* validator.ts: Validator.validate as a state machine
\* ------------------------------------------------------------------------
VARIABLES
    heap,         \* the containers
    rx,           \* the RegExp objects
    data,         \* the record passed to validate (a reference)
    rules,        \* Validator.rules, as authored
    parsedRules,  \* Validator.parsedRules
    pc,           \* "idle", "loop" inside validate, "raised" when validate
                  \* threw (the model follows a Validator up to there);
                  \* "new" and "failed" before a Validator exists
    k,            \* the index of the next entry of parsedRules
    errors,       \* the local errors of validate: field -> error list
    validated,    \* the local validated of validate (a reference)
    results,      \* the ValidationResults returned so far
    before,       \* the tree of the record when the current call began
    walks,        \* the rule walks of the current call, see Walk
    wcPattern,    \* expandWildcards: the pattern argument
    wcLiteral,    \* expandWildcards: the data argument as its literal
    wcResult,     \* expandWildcards: the Map returned, or NotCalled
    exception,    \* the exception that the last operation threw
    registryAtConstruct,  \* the registry as the last constructor call saw it
    evCondition,  \* evaluateCondition: the condition argument
    evValue,      \* evaluateCondition: the currentValue argument
    evResult,     \* evaluateCondition: its outcome, or NotCalled
    fmMessages,   \* MessageFormatter.messages: locale -> key -> template
    fmLocale,     \* MessageFormatter.locale
    fmOptions,    \* MessageFormatter.options: labels?, defaultLocale?
    fmOutput,     \* the last formatError call and its string, or NotCalled
    rtRestored,   \* the Validator built from the deserialized rules, or
                  \* NotCalled
    rtVerdicts,   \* what the two Validators said of the last record
    stPath,       \* set: the path argument
    stValue,      \* set: the value argument
    stResult      \* what get read after set, or NotCalled

\* the state of a call of expandWildcards
wildcardVars == <<wcPattern, wcLiteral, wcResult>>
\* the state of a call of evaluateCondition
conditionVars == <<evCondition, evValue, evResult>>
\* the state of a MessageFormatter
formatterVars == <<fmMessages, fmLocale, fmOptions, fmOutput>>
\* the state of a round trip of a rule set through its serialized form
roundTripVars == <<rtRestored, rtVerdicts>>
\* the state of a call of set
pathVars == <<stPath, stValue, stResult>>
\* the variables that Validator.validate neither reads nor writes
otherVars ==
    <<wildcardVars, registry, registryAtConstruct, conditionVars,
      formatterVars, roundTripVars, pathVars>>

vars == <<heap, rx, data, rules, parsedRules, pc, k, errors, validated,
          results, before, walks, exception, otherVars>>

\* a result variable before the call, and after a call that returned v
NotCalled == [called |-> FALSE, value |-> <<>>]
Called(v) == [called |-> TRUE, value |-> v]

\* no call of expandWildcards is modelled
WildcardIdle ==
    /\ wcPattern = <<>>
    /\ wcLiteral = Undefined
    /\ wcResult = NotCalled

\* no call of evaluateCondition is modelled
ConditionIdle ==
    /\ evCondition = NoCondition
    /\ evValue = Undefined
    /\ evResult = NotCalled

\* no MessageFormatter is modelled
FormatterIdle ==
    /\ fmMessages = <<>>
    /\ fmLocale = "en"
    /\ fmOptions = <<>>
    /\ fmOutput = NotCalled

\* no rule set is serialized and no call of set is modelled
RoundTripIdle ==
    /\ rtRestored = NotCalled
    /\ rtVerdicts = NotCalled
PathIdle ==
    /\ stPath = <<>>
    /\ stValue = Undefined
    /\ stResult = NotCalled

\* the registry holds the built-in rules and nothing was thrown
RegistryIdle ==
    /\ registry = ruleRegistry
    /\ exception = NoException
    /\ registryAtConstruct = ruleRegistry

\* The record kept of one call of validateField: the pattern and the
\* concrete field, the value, the heap and the regex store when the walk
\* began, and the errors and the events of the walk.
Walk(pattern, field, value, h, rx0, r) ==
    [pattern |-> pattern, field |-> field, value |-> value, h |-> h,
     rx |-> rx0, errors |-> r.errors, log |-> r.st.log]

\* the empty errors object
NoErrors == [f \in {} |-> <<>>]

\* errors[field] = fieldErrors
PutErrors(errs, field, fieldErrors) ==
    [f \in (DOMAIN errs) \cup {field} |->
        IF f = field THEN fieldErrors ELSE errs[f]]

Init ==
    /\ \E i \in 1..Len(RuleSets) :
          /\ rules = RuleSets[i]
          /\ parsedRules = parseRules(ruleRegistry, RuleSets[i]).value
    /\ \E tree \in Records :
          /\ heap = Build(EmptyHeap, tree).h
          /\ data = Build(EmptyHeap, tree).v
          /\ before = tree
    /\ rx = RegExps
    /\ pc = "idle"
    /\ k = 0
    /\ errors = NoErrors
    /\ validated = Undefined
    /\ results = <<>>
    /\ walks = <<>>
    /\ WildcardIdle
    /\ RegistryIdle
    /\ ConditionIdle
    /\ FormatterIdle
    /\ RoundTripIdle
    /\ PathIdle

\* validate is entered: the two locals are created (lines 39-40)
ValidateBegin ==
    /\ pc = "idle"
    /\ Len(results) < MaxCalls
    /\ pc' = "loop"
    /\ k' = 1
    /\ errors' = NoErrors
    /\ heap' = Alloc(heap, NewObject)
    /\ validated' = Ref(Len(heap) + 1)
    /\ walks' = <<>>
    /\ before' = Snapshot(heap, data)
    /\ UNCHANGED <<rx, data, rules, parsedRules, results, exception>>
    /\ UNCHANGED otherVars

\* recordField without the test fieldErrors.length > 0: the error list is
\* stored in errors whatever its length
recordFieldUntested(c, r, vref, pattern, field, value) ==
    [h |-> c.h, rx |-> r.st.rx,
     errors |-> IF r.st.thrown # NoException THEN c.errors
                ELSE PutErrors(c.errors, field, r.errors),
     walks |-> Append(c.walks, Walk(pattern, field, value, c.h, c.rx, r)),
     thrown |-> r.st.thrown]

\* what validate does with the error list of one concrete field:
\* errors[field] = fieldErrors, or set(validated, field, value) (lines 55-59
\* and 70-74); c is [h, rx, errors, walks, thrown], r the outcome of
\* validateField.  Nothing is recorded when validateField threw.
recordField(c, r, vref, pattern, field, value) ==
    IF r.st.thrown # NoException
    THEN [h |-> c.h, rx |-> r.st.rx, errors |-> c.errors,
          walks |-> Append(c.walks, Walk(pattern, field, value, c.h, c.rx, r)),
          thrown |-> r.st.thrown]
    ELSE IF Len(r.errors) > 0
    THEN [h |-> c.h, rx |-> r.st.rx,
          errors |-> PutErrors(c.errors, field, r.errors),
          walks |-> Append(c.walks, Walk(pattern, field, value, c.h, c.rx, r)),
          thrown |-> NoException]
    ELSE [h |-> set(c.h, vref, field, value), rx |-> r.st.rx,
          errors |-> c.errors,
          walks |-> Append(c.walks, Walk(pattern, field, value, c.h, c.rx, r)),
          thrown |-> NoException]

\* one concrete field: validateField, then recordField
fieldStep(c, vref, allData, pattern, field, value, fieldRules) ==
    recordField(c, validateField(c.h, WalkStart(c.rx), field,
                                 value, allData, fieldRules),
                vref, pattern, field, value)

RECURSIVE expandedLoop(_, _, _, _, _, _, _)
\* the loop over the entries expanded[i..] of a wildcard pattern
expandedLoop(c, vref, allData, pattern, expanded, i, fieldRules) ==
    IF i > Len(expanded) \/ c.thrown # NoException THEN c
    ELSE expandedLoop(fieldStep(c, vref, allData, pattern, expanded[i][1],
                                expanded[i][2], fieldRules),
                      vref, allData, pattern, expanded, i + 1, fieldRules)

\* one iteration of the loop of validate for a wildcard pattern
ValidateWildcardPattern ==
    /\ pc = "loop"
    /\ k <= Len(parsedRules)
    /\ isWildcardPattern(parsedRules[k][1])
    /\ \E c \in {expandedLoop([h |-> heap, rx |-> rx, errors |-> errors,
                               walks |-> walks, thrown |-> NoException],
                              validated, data, parsedRules[k][1],
                              expandWildcards(heap, parsedRules[k][1], data),
                              1, parsedRules[k][2])} :
          /\ heap' = c.h
          /\ rx' = c.rx
          /\ errors' = c.errors
          /\ walks' = c.walks
          /\ exception' = c.thrown
          /\ pc' = IF c.thrown # NoException THEN "raised" ELSE "loop"
    /\ k' = k + 1
    /\ UNCHANGED <<data, rules, parsedRules, validated, results, before>>
    /\ UNCHANGED otherVars

\* one iteration of the loop of validate for a pattern without wildcard
ValidatePlainPattern ==
    /\ pc = "loop"
    /\ k <= Len(parsedRules)
    /\ ~isWildcardPattern(parsedRules[k][1])
    /\ \E c \in {fieldStep([h |-> heap, rx |-> rx, errors |-> errors,
                            walks |-> walks, thrown |-> NoException],
                           validated, data, parsedRules[k][1],
                           parsedRules[k][1],
                           get(heap, data, parsedRules[k][1]),
                           parsedRules[k][2])} :
          /\ heap' = c.h
          /\ rx' = c.rx
          /\ errors' = c.errors
          /\ walks' = c.walks
          /\ exception' = c.thrown
          /\ pc' = IF c.thrown # NoException THEN "raised" ELSE "loop"
    /\ k' = k + 1
    /\ UNCHANGED <<data, rules, parsedRules, validated, results, before>>
    /\ UNCHANGED otherVars

\* ValidateReturn returning the input record as validated
\* (validated: valid ? data : {})
ValidateReturnInput ==
    /\ pc = "loop"
    /\ k > Len(parsedRules)
    /\ IF DOMAIN errors = {}
       THEN /\ results' = Append(results,
                    [valid |-> TRUE, errors |-> errors, validated |-> data])
            /\ heap' = heap
       ELSE /\ results' = Append(results,
                    [valid |-> FALSE, errors |-> errors,
                     validated |-> Ref(Len(heap) + 1)])
            /\ heap' = Alloc(heap, NewObject)
    /\ pc' = "idle"
    /\ UNCHANGED <<rx, data, rules, parsedRules, k, errors, validated,
                   before, walks, exception>>
    /\ UNCHANGED otherVars

\* the loop is over: validate returns {valid, errors, validated} (lines
\* 78-84)
ValidateReturn ==
    /\ pc = "loop"
    /\ k > Len(parsedRules)
    /\ LET valid == DOMAIN errors = {}
       IN IF valid
          THEN /\ results' = Append(results,
                       [valid |-> TRUE, errors |-> errors,
                        validated |-> validated])
               /\ heap' = heap
          ELSE /\ results' = Append(results,
                       [valid |-> FALSE, errors |-> errors,
                        validated |-> Ref(Len(heap) + 1)])
               /\ heap' = Alloc(heap, NewObject)
    /\ pc' = "idle"
    /\ UNCHANGED <<rx, data, rules, parsedRules, k, errors, validated,
                   before, walks, exception>>
    /\ UNCHANGED otherVars

Next ==
    \/ ValidateBegin
    \/ ValidateWildcardPattern
    \/ ValidatePlainPattern
    \/ ValidateReturn

Spec == Init /\ [][Next]_vars

\* the loop of validate has an entry of parsedRules left to take
InLoopBody == pc = "loop" /\ k <= Len(parsedRules)

\* A call of validate that has begun is carried on: validate is sequential
\* code with nothing to wait for.  The second conjunct is
\* WF_vars(ValidateWildcardPattern \/ ValidatePlainPattern) with the
\* enabling condition of the two actions, InLoopBody, written out.
FairSpec ==
    /\ Spec
    /\ WF_vars(ValidateReturn)
    /\ \/ []<>(~InLoopBody)
       \/ []<><<ValidateWildcardPattern \/ ValidatePlainPattern>>_vars

\* ------------------------------------------------------------------------
\* Construction: new Validator(rules) and registerRule(handler)
\* ------------------------------------------------------------------------
\* the handlers that callers register
myRule == CustomHandler("my_rule", "reject", "unset", "unset")
CustomHandlers ==
    {myRule,
     CustomHandler("Upper", "accept", "unset", "unset"),
     CustomHandler("when", "accept", "unset", "unset"),
     CustomHandler("a1025", "accept", "unset", "unset"),
     CustomHandler("required", "accept", "false", "unset")}

\* the rule sets that callers construct a Validator with
ConstructRuleSets ==
    <<\* a: ['required', 'string']
      <<<<Path1("a"), <<Simple("required"), Simple("string")>>>>>>,
      \* a: ['Upper']
      <<<<Path1("a"), <<Simple("Upper")>>>>>>,
      \* a: ['my_rule']
      <<<<Path1("a"), <<Simple("my_rule")>>>>>>,
      \* a: ['required', ['a-b', 5]]
      <<<<Path1("a"), <<Simple("required"),
                        Parameterized("a-b", <<Num(5)>>)>>>>>>,
      \* a: [['when', ['@filled'], ['9a']]]
      <<<<Path1("a"), <<When(SelfCond("@filled", "", Undefined),
                             <<Simple("9a")>>)>>>>>>,
      \* a: [['when', ['@filled'], ['string'], ['my_rule']]]
      <<<<Path1("a"), <<WhenElse(SelfCond("@filled", "", Undefined),
                                 <<Simple("string")>>,
                                 <<Simple("my_rule")>>)>>>>>>,
      \* a: [<1025 letters a>]
      <<<<Path1("a"), <<Simple("a1025")>>>>>>,
      \* a: [<1024 letters a>]
      <<<<Path1("a"), <<Simple("a1024")>>>>>>,
      \* a: ['']
      <<<<Path1("a"), <<Simple("")>>>>>>,
      \* a: ['my_rule', 'Upper']
      <<<<Path1("a"), <<Simple("my_rule"), Simple("Upper")>>>>>>,
      \* a: ['string'], c: ['Upper', 'my_rule']
      <<<<Path1("a"), <<Simple("string")>>>>,
        <<Path1("c"), <<Simple("Upper"), Simple("my_rule")>>>>>>,
      \* a: [['when', ['@filled'], [['when', ['@empty'], ['required']]]]]
      <<<<Path1("a"), <<When(SelfCond("@filled", "", Undefined),
                             <<When(SelfCond("@empty", "", Undefined),
                                    <<Simple("required")>>)>>)>>>>>>,
      \* a: [['when', ['@filled'], ['string'],
      \*              [['when', ['@empty'], ['required'], ['string']]]]]
      <<<<Path1("a"), <<WhenElse(SelfCond("@filled", "", Undefined),
                                 <<Simple("string")>>,
                                 <<WhenElse(SelfCond("@empty", "", Undefined),
                                            <<Simple("required")>>,
                                            <<Simple("string")>>)>>)>>>>>>,
      \* a: [{}]
      <<<<Path1("a"), <<NotARule>>>>>>,
      \* '*': ['string', 'my_rule']
      <<<<Path1("*"), <<Simple("string"), Simple("my_rule")>>>>>>,
      \* a: [['regex', '(']]
      <<<<Path1("a"), <<Parameterized("regex", <<Str(<<"(">>)>>)>>>>>>,
      \* a: [['when', ['@matches', '('], ['required']]]
      <<<<Path1("a"), <<When(SelfCond("@matches", "", Str(<<"(">>)),
                             <<Simple("required")>>)>>>>>>,
      \* a: [['when', ['a', 'in', 5], ['required']]]
      <<<<Path1("a"), <<When(FieldCond(Path1("a"), "in", Num(5)),
                             <<Simple("required")>>)>>>>>>,
      \* a: [['when', ['a', 'in', ['x']], ['integer']]]
      <<<<Path1("a"), <<When(FieldCond(Path1("a"), "in",
                                       List(<<Str(<<"x">>)>>)),
                             <<Simple("integer")>>)>>>>>>,
      \* a: [['when', undefined, ['required']]]
      <<<<Path1("a"), <<When(NoCondition, <<Simple("required")>>)>>>>>> >>

\* the records that the constructed Validator is given
ConstructRecords ==
    {ObjectTree(<<>>), ObjectTree(<<<<Path1("a"), Str(<<>>)>>>>),
     ObjectTree(<<<<Path1("a"), Str(<<"x">>)>>>>)}

\* the module is loaded and no Validator is constructed yet
ConstructInit ==
    /\ \E tree \in ConstructRecords :
          /\ heap = Build(EmptyHeap, tree).h
          /\ data = Build(EmptyHeap, tree).v
          /\ before = tree
    /\ rx = RegExps
    /\ rules = <<>>
    /\ parsedRules = <<>>
    /\ pc = "new"
    /\ k = 0
    /\ errors = NoErrors
    /\ validated = Undefined
    /\ results = <<>>
    /\ walks = <<>>
    /\ WildcardIdle
    /\ RegistryIdle
    /\ ConditionIdle
    /\ FormatterIdle
    /\ RoundTripIdle
    /\ PathIdle

\* ruleRegistry.set(handler.name, handler)
registerRule(reg, handler) == (handler.name :> handler) @@ reg

\* registerRule(handler), called between the calls of the Validator
RegisterRule ==
    /\ pc # "loop"
    /\ \E handler \in CustomHandlers :
          registry' = registerRule(registry, handler)
    /\ UNCHANGED <<heap, rx, data, rules, parsedRules, pc, k, errors,
                   validated, results, before, walks, exception,
                   wildcardVars, registryAtConstruct, conditionVars,
                   formatterVars, roundTripVars, pathVars>>

\* the state after the constructor ran, r being the outcome of parseRules
constructed(r) ==
    IF r.thrown = NoException
    THEN [pc |-> "idle", parsedRules |-> r.value, exception |-> NoException]
    ELSE [pc |-> "failed", parsedRules |-> <<>>, exception |-> r.thrown]

\* new Validator(rules), when no Validator was constructed so far
Construct ==
    /\ pc \in {"new", "failed"}
    /\ \E i \in 1..Len(ConstructRuleSets) :
          /\ rules' = ConstructRuleSets[i]
          /\ \E c \in {constructed(parseRules(registry,
                                               ConstructRuleSets[i]))} :
                /\ pc' = c.pc
                /\ parsedRules' = c.parsedRules
                /\ exception' = c.exception
    /\ registryAtConstruct' = registry
    /\ UNCHANGED <<heap, rx, data, k, errors, validated, results, before,
                   walks, wildcardVars, registry, conditionVars,
                   formatterVars, roundTripVars, pathVars>>

ConstructNext ==
    \/ RegisterRule
    \/ Construct
    \/ ValidateBegin
    \/ ValidateWildcardPattern
    \/ ValidatePlainPattern
    \/ ValidateReturn

ConstructSpec == ConstructInit /\ [][ConstructNext]_vars

\* ------------------------------------------------------------------------
\* wildcard.ts: a call of expandWildcards
\* ------------------------------------------------------------------------
\* field names are a, b, c, d, k, m, n; '0', '1', '2' and '' are keys too
WildcardPatterns ==
    {Path1("m"), Path1("*"), Path2("m", "*"), Path2("m", "n"),
     Path2("*", "*"), Path3("m", "*", "n"), Path3("m", "*", "*"),
     Path3("*", "*", "n")}

WildcardRecords ==
    LET x == Str(<<"x">>)
        y == Str(<<"y">>)
        z == Str(<<"z">>)
    IN {ObjectTree(<<>>)}
       \cup {ObjectTree(<<<<Path1("m"), val>>>>) :
               val \in {Null, x, Num(5), ArrayTree(<<>>), ObjectTree(<<>>),
                        ArrayTree(<<x>>), ArrayTree(<<y, x>>),
                        ArrayTree(<<ObjectTree(<<<<Path1("n"), x>>>>),
                                    ObjectTree(<<<<Path1("n"), y>>>>)>>),
                        ArrayTree(<<ObjectTree(<<<<Path1("n"), x>>>>), y,
                                    Null,
                                    ObjectTree(<<<<Path1("k"), z>>>>)>>),
                        ArrayTree(<<ArrayTree(<<x, y>>), ArrayTree(<<>>),
                                    ArrayTree(<<z>>)>>),
                        ObjectTree(<<<<Path1("b"), x>>, <<Path1("a"), y>>>>),
                        ObjectTree(<<<<Path1("b"), x>>, <<Path1("1"), y>>,
                                     <<Path1("0"), z>>>>),
                        ObjectTree(<<<<Path1("2"), x>>, <<Path1("1"), y>>>>),
                        ObjectTree(<<<<Path1("b"),
                                       ObjectTree(<<<<Path1("n"), x>>>>)>>,
                                     <<Path1("a"),
                                       ObjectTree(<<<<Path1("n"), y>>>>)>>>>),
                        ObjectTree(<<<<Path1("b"), ArrayTree(<<x, y>>)>>,
                                     <<Path1("a"),
                                       ObjectTree(<<<<Path1("d"), z>>,
                                                    <<Path1("c"), x>>>>)>>>>)}}
       \cup {ObjectTree(<<<<Path1("c"), ArrayTree(<<x>>)>>,
                          <<Path1("m"), ArrayTree(<<y, z>>)>>>>),
             \* {'': 'x'} and {'': {n: 'x'}, m: 'y'}
             ObjectTree(<<<<<<>>, x>>>>),
             ObjectTree(<<<<<<>>, ObjectTree(<<<<Path1("n"), x>>>>)>>,
                          <<Path1("m"), y>>>>)}

\* the state before a call expandWildcards(pattern, data)
WildcardInit ==
    /\ \E tree \in WildcardRecords :
          /\ heap = Build(EmptyHeap, tree).h
          /\ data = Build(EmptyHeap, tree).v
          /\ wcLiteral = tree
    /\ wcPattern \in WildcardPatterns
    /\ wcResult = NotCalled
    /\ rx = RegExps
    /\ rules = <<>>
    /\ parsedRules = <<>>
    /\ pc = "idle"
    /\ k = 0
    /\ errors = NoErrors
    /\ validated = Undefined
    /\ results = <<>>
    /\ before = Undefined
    /\ walks = <<>>
    /\ RegistryIdle
    /\ ConditionIdle
    /\ FormatterIdle
    /\ RoundTripIdle
    /\ PathIdle

\* expandWildcards(pattern, data) is called and returns
ExpandWildcards ==
    /\ ~wcResult.called
    /\ wcResult' = Called(expandWildcards(heap, wcPattern, data))
    /\ UNCHANGED <<heap, rx, data, rules, parsedRules, pc, k, errors,
                   validated, results, before, walks, exception,
                   wcPattern, wcLiteral, registry, registryAtConstruct,
                   conditionVars, formatterVars, roundTripVars, pathVars>>

WildcardNext == ExpandWildcards

WildcardSpec == WildcardInit /\ [][WildcardNext]_vars

\* ------------------------------------------------------------------------
\* condition.ts: a call of evaluateCondition
\* ------------------------------------------------------------------------
\* the ordering comparators of a field condition
OrderingOps == {">", ">=", "<", "<="}

\* ['@filled'], ['@empty'], ['@matches', /x/g] and ['q', 'in', 5]
Filled == SelfCond("@filled", "", Undefined)
Empty == SelfCond("@empty", "", Undefined)
MatchesGlobal == SelfCond("@matches", "", RegExpRef(1))
InNumber == FieldCond(Path1("q"), "in", Num(5))

\* the conditions that evaluateCondition is called with: the ordering
\* conditions ['q', op, expected], self conditions (among them
\* ['@length', '>=', 2], ['@value', '=', 'x'] and ['@type', 'string']) and
\* compound conditions
Conditions ==
    {FieldCond(Path1("q"), op, expected) :
        op \in OrderingOps,
        expected \in {Num(10), Str(<<"a">>), Str(<<"9">>)}}
    \cup {Filled, Empty, MatchesGlobal,
          SelfCond("@length", ">=", Num(2)),
          SelfCond("@value", "=", Str(<<"x">>)),
          SelfCond("@type", "string", Undefined),
          And(<<>>), Or(<<>>),
          And(<<Filled>>), Or(<<Empty>>),
          And(<<Empty, InNumber>>), Or(<<Filled, InNumber>>),
          And(<<Filled, InNumber, Empty>>), Or(<<Empty, InNumber, Filled>>),
          And(<<MatchesGlobal, MatchesGlobal>>),
          Or(<<MatchesGlobal, MatchesGlobal>>),
          And(<<Filled, MatchesGlobal, Empty, MatchesGlobal>>),
          Or(<<Empty, MatchesGlobal, Filled, MatchesGlobal>>),
          Or(<<Empty, MatchesGlobal>>), And(<<Filled, MatchesGlobal, Empty>>),
          And(<<Filled, Or(<<Empty, MatchesGlobal>>), MatchesGlobal>>),
          Or(<<And(<<Filled, MatchesGlobal, Empty>>), MatchesGlobal>>),
          And(<<Or(<<>>), InNumber>>), Or(<<And(<<>>), InNumber>>),
          And(<<FieldCond(Path1("q"), ">=", Num(10)),
                FieldCond(Path1("q"), "<", Num(10))>>),
          Or(<<FieldCond(Path1("q"), ">=", Num(10)),
               FieldCond(Path1("q"), "<", Num(10))>>)}

\* the records: {}, {q: 10}, {q: 5}, {q: 'b'}, {q: '10'}, {q: null}
ConditionRecords ==
    {ObjectTree(<<>>)}
    \cup {ObjectTree(<<<<Path1("q"), v>>>>) :
             v \in {Num(10), Num(5), Str(<<"b">>), Str(<<"1", "0">>), Null}}

\* the values of the field under validation
ConditionValues == {Undefined, Str(<<>>), Str(<<"x">>), Str(<<"x", "x">>)}

\* the state before a call evaluateCondition(condition, currentValue, data);
\* an earlier test may have left the lastIndex of /x/g at 1
ConditionInit ==
    /\ \E tree \in ConditionRecords :
          /\ heap = Build(EmptyHeap, tree).h
          /\ data = Build(EmptyHeap, tree).v
          /\ before = tree
    /\ evCondition \in Conditions
    /\ evValue \in ConditionValues
    /\ evResult = NotCalled
    /\ rx \in {RegExps, [RegExps EXCEPT ![1].lastIndex = 1]}
    /\ rules = <<>>
    /\ parsedRules = <<>>
    /\ pc = "idle"
    /\ k = 0
    /\ errors = NoErrors
    /\ validated = Undefined
    /\ results = <<>>
    /\ walks = <<>>
    /\ WildcardIdle
    /\ RegistryIdle
    /\ FormatterIdle
    /\ RoundTripIdle
    /\ PathIdle

\* evaluateCondition(condition, currentValue, data) is called and returns
\* or throws
EvaluateCondition ==
    /\ ~evResult.called
    /\ \E r \in {evaluateCondition(heap, rx, evCondition, evValue, data)} :
          /\ evResult' = Called([res |-> r.res, thrown |-> r.thrown])
          /\ rx' = r.rx
    /\ UNCHANGED <<heap, data, rules, parsedRules, pc, k, errors, validated,
                   results, before, walks, exception, wildcardVars, registry,
                   registryAtConstruct, evCondition, evValue, formatterVars, roundTripVars, pathVars>>

ConditionNext == EvaluateCondition

ConditionSpec == ConditionInit /\ [][ConditionNext]_vars

\* ------------------------------------------------------------------------
\* MessageFormatter
\* ------------------------------------------------------------------------
\* Locales and error keys are TLA+ strings; templates, labels, field paths
\* and parameter names are strings of characters.  messages maps a locale
\* to a map from keys to templates; options is a record that holds
\* "labels" and "defaultLocale" when the caller gave them; labels is the
\* list of the <<pattern, label>> entries in Object.entries order.  No
\* locale, key, field or parameter of the model is a name that
\* Object.prototype holds.

\* the characters of an error key
KeyText ==
    [key \in {"v.k", "v.j"} |->
        IF key = "v.k" THEN <<"v", ".", "k">> ELSE <<"v", ".", "j">>]

\* a ?? b
Coalesce(a, b) == IF a.t \in {"null", "undefined"} THEN b ELSE a

\* this.messages[locale]?.[key]
lookupMessage(messages, locale, key) ==
    IF locale \notin DOMAIN messages THEN Undefined
    ELSE IF key \notin DOMAIN messages[locale] THEN Undefined
    ELSE Str(messages[locale][key])

\* this.options.defaultLocale ?? 'en'
defaultLocaleOf(options) ==
    IF "defaultLocale" \in DOMAIN options THEN options.defaultLocale
    ELSE "en"

\* the template with the default locale consulted before the current one
templateDefaultFirst(messages, locale, options, key) ==
    Coalesce(lookupMessage(messages, defaultLocaleOf(options), key),
             Coalesce(lookupMessage(messages, locale, key),
                      Str(KeyText[key]))).v

\* the template of formatError (lines 36-39)
template(messages, locale, options, key) ==
    Coalesce(lookupMessage(messages, locale, key),
             Coalesce(lookupMessage(messages, defaultLocaleOf(options), key),
                      Str(KeyText[key]))).v

\* this.options.labels ?? {}
labelsOf(options) ==
    IF "labels" \in DOMAIN options THEN options.labels ELSE <<>>

\* labels[field], Undefined when the labels hold no such entry
labelAt(labels, field) ==
    IF \E i \in 1..Len(labels) : labels[i][1] = field
    THEN Str(labels[CHOOSE i \in 1..Len(labels) : labels[i][1] = field][2])
    ELSE Undefined

RECURSIVE labelRegexTest(_, _)
\* new RegExp('^' + pattern.replace(/\./g, '\\.').replace(/\*/g, '[^.]+')
\* + '$').test(field), for a pattern of letters, digits, '.' and '*': a '.'
\* and a letter match themselves and a '*' matches one or more characters
\* other than '.'
labelRegexTest(pattern, field) ==
    IF Len(pattern) = 0 THEN Len(field) = 0
    ELSE IF pattern[1] = "*"
    THEN \E n \in 1..Len(field) :
            /\ \A m \in 1..n : field[m] # "."
            /\ labelRegexTest(Tail(pattern), SubSeq(field, n + 1, Len(field)))
    ELSE /\ Len(field) > 0
         /\ field[1] = pattern[1]
         /\ labelRegexTest(Tail(pattern), Tail(field))

RECURSIVE wildcardLabel(_, _, _)
\* the loop of getFieldLabel over the entries labels[i..]
wildcardLabel(labels, i, field) ==
    IF i > Len(labels) THEN field
    ELSE IF Includes(labels[i][1], "*") /\ labelRegexTest(labels[i][1], field)
    THEN labels[i][2]
    ELSE wildcardLabel(labels, i + 1, field)

\* getFieldLabel(field)
getFieldLabel(options, field) ==
    IF Truthy(labelAt(labelsOf(options), field))
    THEN labelAt(labelsOf(options), field).v
    ELSE wildcardLabel(labelsOf(options), 1, field)

\* { ...params, [name]: val }: an entry of that name keeps its place
withParam(params, name, val) ==
    IF \E i \in 1..Len(params) : params[i][1] = name
    THEN [i \in 1..Len(params) |->
            IF params[i][1] = name THEN <<name, val>> ELSE params[i]]
    ELSE Append(params, <<name, val>>)

\* params[name]
paramAt(params, name) ==
    IF \E i \in 1..Len(params) : params[i][1] = name
    THEN params[CHOOSE i \in 1..Len(params) : params[i][1] = name][2]
    ELSE Undefined

\* the characters that \w matches
WordChars ==
    {"a", "b", "c", "d", "e", "f", "g", "h", "i", "j", "k", "l", "m", "n",
     "o", "p", "q", "r", "s", "t", "u", "v", "w", "x", "y", "z",
     "A", "B", "C", "D", "E", "F", "G", "H", "I", "J", "K", "L", "M", "N",
     "O", "P", "Q", "R", "S", "T", "U", "V", "W", "X", "Y", "Z", "_"}
    \cup DigitSet

RECURSIVE wordRun(_, _)
\* the number of word characters that text holds from position i on
wordRun(text, i) ==
    IF i <= Len(text) /\ text[i] \in WordChars THEN 1 + wordRun(text, i + 1)
    ELSE 0

\* /\{(\w+)\}/ matches text at position i
placeholderAt(text, i) ==
    /\ text[i] = "{"
    /\ wordRun(text, i + 1) > 0
    /\ i + 1 + wordRun(text, i + 1) <= Len(text)
    /\ text[i + 1 + wordRun(text, i + 1)] = "}"

\* params[name]?.toString() ?? `{${name}}`
replacement(params, name) ==
    IF paramAt(params, name).t \in {"null", "undefined"}
    THEN <<"{">> \o name \o <<"}">>
    ELSE ToStringPrim(paramAt(params, name))

RECURSIVE interpolateFrom(_, _, _)
\* template.replace(/\{(\w+)\}/g, ...) from position i on
interpolateFrom(text, i, params) ==
    IF i > Len(text) THEN <<>>
    ELSE IF placeholderAt(text, i)
    THEN replacement(params, SubSeq(text, i + 1, i + wordRun(text, i + 1)))
         \o interpolateFrom(text, i + 2 + wordRun(text, i + 1), params)
    ELSE <<text[i]>> \o interpolateFrom(text, i + 1, params)

\* interpolate(template, params)
interpolate(text, params) == interpolateFrom(text, 1, params)

\* formatError(error, field)
formatError(messages, locale, options, error, field) ==
    interpolate(template(messages, locale, options, error.key),
                withParam(error.params, <<"f", "i", "e", "l", "d">>,
                          Str(getFieldLabel(options, field))))

\* addMessages(locale, added): Object.assign onto the locale's map, which
\* is created when the locale has none
addMessages(messages, locale, added) ==
    IF locale \in DOMAIN messages
    THEN [messages EXCEPT ![locale] = added @@ messages[locale]]
    ELSE (locale :> added) @@ messages

RECURSIVE spread(_, _, _)
\* { ...labels, ...added[i..] }
spread(labels, added, i) ==
    IF i > Len(added) THEN labels
    ELSE spread(withParam(labels, added[i][1], added[i][2]), added, i + 1)

\* setLabels(added)
setLabels(options, added) ==
    ("labels" :> spread(labelsOf(options), added, 1)) @@ options

\* the templates 'E{field}', 'H{field}{min}{x}' and 'J{field}{min}'
TemplateE == <<"E", "{", "f", "i", "e", "l", "d", "}">>
TemplateH ==
    <<"H", "{", "f", "i", "e", "l", "d", "}", "{", "m", "i", "n", "}",
      "{", "x", "}">>
TemplateJ ==
    <<"J", "{", "f", "i", "e", "l", "d", "}", "{", "m", "i", "n", "}">>

\* the messages that a MessageFormatter is constructed with:
\* { en: {} }, { en: { 'v.k': E } } and { en: { 'v.k': E }, hr: { 'v.k': H } }
InitialMessages ==
    {("en" :> <<>>),
     ("en" :> ("v.k" :> TemplateE)),
     ("en" :> ("v.k" :> TemplateE)) @@ ("hr" :> ("v.k" :> TemplateH))}

\* the locales a caller names
Locales == {"en", "hr", "de"}

\* the messages that addMessages is called with
AddedMessages ==
    {<<"hr", ("v.k" :> TemplateH)>>, <<"en", ("v.j" :> TemplateJ)>>,
     <<"de", ("v.k" :> TemplateJ)>>}

\* the labels that a caller gives: { a: 'A' }, { a: '' },
\* { 'i.*': 'W', 'i.*.n': 'N', 'i.0': 'X' }, { '*': 'S', 'a': 'A' },
\* { '*.n': '', 'i.*.n': 'N' }
LabelSets ==
    {<<<<Path1("a"), <<"A">>>>>>,
     <<<<Path1("a"), <<>>>>>>,
     <<<<Path2("i", "*"), <<"W">>>>, <<Path3("i", "*", "n"), <<"N">>>>,
       <<Path2("i", "0"), <<"X">>>>>>,
     <<<<Path1("*"), <<"S">>>>, <<Path1("a"), <<"A">>>>>>,
     <<<<Path2("*", "n"), <<>>>>, <<Path3("i", "*", "n"), <<"N">>>>>>}

\* the options that a MessageFormatter is constructed with
InitialOptions ==
    {<<>>, [defaultLocale |-> "hr"]}
    \cup {[labels |-> labels] : labels \in LabelSets}
    \cup {[labels |-> <<<<Path2("i", "*"), <<"W">>>>>>, defaultLocale |-> "hr"]}

\* the errors that are formatted:
\* { key: 'v.k', params: { min: 3, field: 'own' } }, { key: 'v.j', params: {} }
FormatErrors ==
    {[key |-> "v.k",
      params |-> <<<<<<"m", "i", "n">>, Num(3)>>,
                   <<<<"f", "i", "e", "l", "d">>, Str(<<"o", "w", "n">>)>>>>],
     [key |-> "v.j", params |-> <<>>]}

\* the field paths that are formatted: a, i.0, i.0.n
FormatFields == {Path1("a"), Path2("i", "0"), Path3("i", "0", "n")}

\* new MessageFormatter(messages, locale, options)
FormatterInit ==
    /\ fmMessages \in InitialMessages
    /\ fmLocale \in {"en", "de"}
    /\ fmOptions \in InitialOptions
    /\ fmOutput = NotCalled
    /\ heap = EmptyHeap
    /\ data = Undefined
    /\ before = Undefined
    /\ rx = RegExps
    /\ rules = <<>>
    /\ parsedRules = <<>>
    /\ pc = "idle"
    /\ k = 0
    /\ errors = NoErrors
    /\ validated = Undefined
    /\ results = <<>>
    /\ walks = <<>>
    /\ WildcardIdle
    /\ RegistryIdle
    /\ ConditionIdle
    /\ RoundTripIdle
    /\ PathIdle

\* the variables that a MessageFormatter neither reads nor writes
validatorVars ==
    <<heap, rx, data, rules, parsedRules, pc, k, errors, validated, results,
      before, walks, exception, wildcardVars, registry, registryAtConstruct,
      conditionVars, roundTripVars, pathVars>>

\* formatError(error, field) is called and returns
FormatError ==
    /\ \E error \in FormatErrors, field \in FormatFields :
          fmOutput' = Called([error |-> error, field |-> field,
                              text |-> formatError(fmMessages, fmLocale,
                                                   fmOptions, error, field)])
    /\ UNCHANGED <<fmMessages, fmLocale, fmOptions, validatorVars>>

\* setLocale(locale)
SetLocale ==
    /\ \E locale \in Locales : fmLocale' = locale
    /\ UNCHANGED <<fmMessages, fmOptions, fmOutput, validatorVars>>

\* addMessages(locale, messages)
AddMessages ==
    /\ \E a \in AddedMessages :
          fmMessages' = addMessages(fmMessages, a[1], a[2])
    /\ UNCHANGED <<fmLocale, fmOptions, fmOutput, validatorVars>>

\* setLabels(labels)
SetLabels ==
    /\ \E labels \in {<<<<Path1("a"), <<"B">>>>>>} :
          fmOptions' = setLabels(fmOptions, labels)
    /\ UNCHANGED <<fmMessages, fmLocale, fmOutput, validatorVars>>

FormatterNext == FormatError \/ SetLocale \/ AddMessages \/ SetLabels

FormatterSpec == FormatterInit /\ [][FormatterNext]_vars

\* ------------------------------------------------------------------------
\* validator.ts: validate as one step; README: serializeRules and
\* deserializeRules
\* ------------------------------------------------------------------------
RECURSIVE validateLoop(_, _, _, _, _)
\* the loop of validate over the entries parsed[i..] (lines 42-76)
validateLoop(c, vref, allData, parsed, i) ==
    IF i > Len(parsed) \/ c.thrown # NoException THEN c
    ELSE validateLoop(
             IF isWildcardPattern(parsed[i][1])
             THEN expandedLoop(c, vref, allData, parsed[i][1],
                               expandWildcards(c.h, parsed[i][1], allData),
                               1, parsed[i][2])
             ELSE fieldStep(c, vref, allData, parsed[i][1], parsed[i][1],
                            get(c.h, allData, parsed[i][1]), parsed[i][2]),
             vref, allData, parsed, i + 1)

\* validate(data) from its entry to the end of its loop: [h, rx, errors,
\* walks, thrown], the validated object being the last one of h
validateCall(h, rx0, allData, parsed) ==
    validateLoop([h |-> Alloc(h, NewObject), rx |-> rx0, errors |-> NoErrors,
                  walks |-> <<>>, thrown |-> NoException],
                 Ref(Len(h) + 1), allData, parsed, 1)

\* RegExp.prototype.flags
flagsOf(re) == IF re.global THEN <<"g">> ELSE <<>>

\* the replacer of serializeRules: a RegExp becomes
\* { __regex: source, __flags: flags }
replacer(rx0, val) ==
    IF val.t = "regexp"
    THEN [t |-> "pair", regex |-> rx0[val.v].source,
          flags |-> flagsOf(rx0[val.v])]
    ELSE val

\* serializeRules(rules), as the JSON value the text denotes.  The rule sets
\* that are serialized hold names and [name, ...params] tuples.
serializeRules(rx0, rs) ==
    [i \in 1..Len(rs) |->
        <<rs[i][1],
          [j \in 1..Len(rs[i][2]) |->
              [rs[i][2][j] EXCEPT
                  !.params = [n \in 1..Len(rs[i][2][j].params) |->
                                 replacer(rx0, rs[i][2][j].params[n])]]]>>]

\* new RegExp(source, flags)
NewRegExpWithFlags(src, flags) ==
    [source |-> src, global |-> Includes(flags, "g"), lastIndex |-> 0]

RECURSIVE reviveParams(_, _, _, _)
\* the reviver of deserializeRules over the params[i..] of a rule: a pair
\* becomes a new RegExp object
reviveParams(rx0, params, i, acc) ==
    IF i > Len(params) THEN [rx |-> rx0, value |-> acc]
    ELSE IF params[i].t = "pair"
    THEN reviveParams(Append(rx0, NewRegExpWithFlags(params[i].regex,
                                                     params[i].flags)),
                      params, i + 1, Append(acc, RegExpRef(Len(rx0) + 1)))
    ELSE reviveParams(rx0, params, i + 1, Append(acc, params[i]))

\* the rule with the revived params r.value
revived(rule, r) == [rx |-> r.rx, value |-> [rule EXCEPT !.params = r.value]]

RECURSIVE reviveList(_, _, _, _)
\* ... over the rules list[i..] of a field
reviveList(rx0, list, i, acc) ==
    IF i > Len(list) THEN [rx |-> rx0, value |-> acc]
    ELSE reviveList(reviveParams(rx0, list[i].params, 1, <<>>).rx, list,
                    i + 1,
                    Append(acc,
                           revived(list[i],
                                   reviveParams(rx0, list[i].params, 1,
                                                <<>>)).value))

RECURSIVE deserializeFrom(_, _, _, _)
\* ... over the entries json[i..]
deserializeFrom(rx0, json, i, acc) ==
    IF i > Len(json) THEN [rx |-> rx0, value |-> acc]
    ELSE deserializeFrom(reviveList(rx0, json[i][2], 1, <<>>).rx, json, i + 1,
                         Append(acc,
                                <<json[i][1],
                                  reviveList(rx0, json[i][2], 1,
                                             <<>>).value>>))

\* deserializeRules(json): the rules and the regex store with the new
\* RegExp objects
deserializeRules(rx0, json) == deserializeFrom(rx0, json, 1, <<>>)

\* the rule sets that are serialized:
\*   a: [['regex', /x/g]]       a: [['regex', /x/]]
\*   a: ['required', ['regex', 'x']]
\*   a: [['regex', p]], b: [['regex', p]]  with p = /x/g, one object
\*   a: [['regex', /x/g], ['regex', /x/]]
\*   a: [['regex', /x/]], b: ['required', ['regex', /x/g]]
RoundTripRuleSets ==
    <<<<<<Path1("a"), <<Parameterized("regex", <<RegExpRef(1)>>)>>>>>>,
      <<<<Path1("a"), <<Parameterized("regex", <<RegExpRef(2)>>)>>>>>>,
      <<<<Path1("a"), <<Simple("required"),
                        Parameterized("regex", <<Str(<<"x">>)>>)>>>>>>,
      <<<<Path1("a"), <<Parameterized("regex", <<RegExpRef(1)>>)>>>>,
        <<Path1("b"), <<Parameterized("regex", <<RegExpRef(1)>>)>>>>>>,
      <<<<Path1("a"), <<Parameterized("regex", <<RegExpRef(1)>>),
                        Parameterized("regex", <<RegExpRef(2)>>)>>>>>>,
      <<<<Path1("a"), <<Parameterized("regex", <<RegExpRef(2)>>)>>>>,
        <<Path1("b"), <<Simple("required"),
                        Parameterized("regex", <<RegExpRef(1)>>)>>>>>> >>

\* the records: {}, {a: 'x'}, {a: 'y'}, {a: 'xx'}, {a: 'x', b: 'x'},
\* {b: 'x'}
RoundTripRecords ==
    {ObjectTree(<<>>),
     ObjectTree(<<<<Path1("a"), Str(<<"x">>)>>>>),
     ObjectTree(<<<<Path1("a"), Str(<<"y">>)>>>>),
     ObjectTree(<<<<Path1("a"), Str(<<"x", "x">>)>>>>),
     ObjectTree(<<<<Path1("a"), Str(<<"x">>)>>, <<Path1("b"), Str(<<"x">>)>>>>),
     ObjectTree(<<<<Path1("b"), Str(<<"x">>)>>>>)}

\* a Validator is constructed from a rule set
RoundTripInit ==
    /\ \E i \in 1..Len(RoundTripRuleSets) :
          /\ rules = RoundTripRuleSets[i]
          /\ parsedRules = parseRules(ruleRegistry, RoundTripRuleSets[i]).value
    /\ rtRestored = NotCalled
    /\ rtVerdicts = NotCalled
    /\ heap = EmptyHeap
    /\ data = Undefined
    /\ before = Undefined
    /\ rx = RegExps
    /\ pc = "idle"
    /\ k = 0
    /\ errors = NoErrors
    /\ validated = Undefined
    /\ results = <<>>
    /\ walks = <<>>
    /\ WildcardIdle
    /\ RegistryIdle
    /\ ConditionIdle
    /\ FormatterIdle
    /\ PathIdle

\* the variables that the round trip neither reads nor writes
roundTripFrame ==
    <<heap, data, rules, parsedRules, pc, k, errors, validated, results,
      before, walks, exception, wildcardVars, registry, registryAtConstruct,
      conditionVars, formatterVars, pathVars>>

\* the Validator validates a record before its rules are serialized
ValidateOriginal ==
    /\ ~rtRestored.called
    /\ \E tree \in RoundTripRecords :
          rx' = validateCall(Build(EmptyHeap, tree).h, rx,
                             Build(EmptyHeap, tree).v, parsedRules).rx
    /\ UNCHANGED <<rtRestored, rtVerdicts, roundTripFrame>>

\* new Validator(deserializeRules(serializeRules(rules)))
RoundTrip ==
    /\ ~rtRestored.called
    /\ \E r \in {deserializeRules(rx, serializeRules(rx, rules))} :
          /\ rx' = r.rx
          /\ rtRestored' = Called(parseRules(ruleRegistry, r.value).value)
    /\ UNCHANGED <<rtVerdicts, roundTripFrame>>

\* what the two Validators say of a record with the rule lists p1 and p2,
\* and the regex store after the two calls
bothValidate(h, rx0, allData, p1, p2) ==
    [original |-> DOMAIN validateCall(h, rx0, allData, p1).errors = {},
     restored |->
        DOMAIN validateCall(h, validateCall(h, rx0, allData, p1).rx, allData,
                            p2).errors = {},
     rx |-> validateCall(h, validateCall(h, rx0, allData, p1).rx, allData,
                         p2).rx]

\* the two Validators validate the same record
ValidateBoth ==
    /\ rtRestored.called
    /\ \E tree \in RoundTripRecords :
          \E b \in {bothValidate(Build(EmptyHeap, tree).h, rx,
                                 Build(EmptyHeap, tree).v, parsedRules,
                                 rtRestored.value)} :
             /\ rtVerdicts' = Called([record |-> tree,
                                      original |-> b.original,
                                      restored |-> b.restored])
             /\ rx' = b.rx
    /\ UNCHANGED <<rtRestored, roundTripFrame>>

RoundTripNext == ValidateOriginal \/ RoundTrip \/ ValidateBoth

RoundTripSpec == RoundTripInit /\ [][RoundTripNext]_vars

\* ------------------------------------------------------------------------
\* utils/get: set, then get
\* ------------------------------------------------------------------------
\* the trees written to
PathTrees ==
    {ObjectTree(<<>>),
     ObjectTree(<<<<Path1("a"), Str(<<"x">>)>>>>),
     ObjectTree(<<<<Path1("a"), Null>>>>),
     ObjectTree(<<<<Path1("a"),
                    ObjectTree(<<<<Path1("b"), Str(<<"x">>)>>>>)>>>>),
     ObjectTree(<<<<Path1("a"),
                    ObjectTree(<<<<Path1("0"), ObjectTree(<<>>)>>>>)>>>>),
     ObjectTree(<<<<Path1("a"), ArrayTree(<<Str(<<"x">>), Str(<<"y">>)>>)>>>>),
     ObjectTree(<<<<Path1("a"), ArrayTree(<<ArrayTree(<<>>)>>)>>>>)}

\* the paths written at: '', 'a', 'b', 'a.b', 'a.0', 'a.5', 'a.length',
\* 'a.b.c', 'a.0.b', 'a.0.0', 'a.length.b', 'a.length.0', 'b.0.c'
SetPaths ==
    {<<>>, Path1("a"), Path1("b"), Path2("a", "b"), Path2("a", "0"),
     Path2("a", "5"), Path1("a") \o <<".">> \o Length,
     Path3("a", "b", "c"), Path3("a", "0", "b"), Path3("a", "0", "0"),
     Path1("a") \o <<".">> \o Length \o <<".", "b">>,
     Path1("a") \o <<".">> \o Length \o <<".", "0">>,
     Path3("b", "0", "c")}

\* the values written
SetValues == {Str(<<"v">>), Num(1), Null, Undefined}

\* a tree, a path and a value
PathInit ==
    /\ \E tree \in PathTrees :
          /\ heap = Build(EmptyHeap, tree).h
          /\ data = Build(EmptyHeap, tree).v
          /\ before = tree
    /\ stPath \in SetPaths
    /\ stValue \in SetValues
    /\ stResult = NotCalled
    /\ rules = <<>>
    /\ parsedRules = <<>>
    /\ rx = RegExps
    /\ pc = "idle"
    /\ k = 0
    /\ errors = NoErrors
    /\ validated = Undefined
    /\ results = <<>>
    /\ walks = <<>>
    /\ WildcardIdle
    /\ RegistryIdle
    /\ ConditionIdle
    /\ FormatterIdle
    /\ RoundTripIdle

\* the variables that set and get neither read nor write
pathFrame ==
    <<rx, data, rules, parsedRules, pc, k, errors, validated, results,
      before, walks, exception, wildcardVars, registry, registryAtConstruct,
      conditionVars, formatterVars, roundTripVars, stPath, stValue>>

\* set(tree, stPath, stValue)
SetPath ==
    /\ ~stResult.called
    /\ \E o \in {setCall(heap, data, stPath, stValue)} :
          /\ heap' = o.h
          /\ stResult' = Called([thrown |-> o.thrown, read |-> FALSE,
                                 value |-> Undefined])
    /\ UNCHANGED pathFrame

\* get(tree, stPath) after a set that returned
GetPath ==
    /\ stResult.called
    /\ stResult.value.thrown = ""
    /\ ~stResult.value.read
    /\ stResult' = Called([thrown |-> "", read |-> TRUE,
                           value |-> get(heap, data, stPath)])
    /\ UNCHANGED <<heap, pathFrame>>

PathNext == SetPath \/ GetPath

PathSpec == PathInit /\ [][PathNext]_vars

\* ------------------------------------------------------------------------
\* Properties
\* ------------------------------------------------------------------------
\* the result of the last completed call
LastResult == results[Len(results)]
\* validate has returned at least once and no call is in progress
Returned == pc = "idle" /\ Len(results) > 0
\* the own keys of a container
Keys(h, ref) == {h[ref.v].ents[i][1] : i \in 1..Len(h[ref.v].ents)}
\* two results are equal by value
SameResult(r1, r2) ==
    /\ r1.valid = r2.valid
    /\ r1.errors = r2.errors
    /\ Snapshot(heap, r1.validated) = Snapshot(heap, r2.validated)

\* C1: validate never mutates the input record: at every point of a call,
\* and after it, the record has the keys and values it had when the call
\* began.
C1_InputNeverMutated == Snapshot(heap, data) = before

\* C2: idempotence: two validate calls with the same record on the same
\* Validator return equal results (valid, errors, validated), also for rule
\* sets that hold RegExp objects.
C2_Idempotent ==
    Len(results) >= 2 => SameResult(results[1], results[2])

\* C3: in every result, valid holds iff errors has no entry, every error
\* list of errors is non-empty, and validated is {} when valid is false.
C3_ResultShape ==
    \A i \in 1..Len(results) :
        /\ results[i].valid <=> (DOMAIN results[i].errors = {})
        /\ \A f \in DOMAIN results[i].errors : Len(results[i].errors[f]) > 0
        /\ ~results[i].valid =>
              Snapshot(heap, results[i].validated) = ObjectTree(<<>>)

\* a call returned valid = false after part of the validated tree was built
C3_Witness ==
    /\ Returned
    /\ ~LastResult.valid
    /\ DOMAIN LastResult.errors # {}
    /\ Keys(heap, validated) # {}

\* C4: when every addressed field passes, reading each addressed concrete
\* path from result.validated gives the value that path has in the input,
\* whatever the order of the patterns and also when one path is a prefix of
\* another.
C4_ValidatedHoldsEveryField ==
    (Returned /\ LastResult.valid) =>
        \A j \in 1..Len(walks) :
            get(heap, LastResult.validated, walks[j].field) = walks[j].value

\* C5: on success every top-level key of result.validated is the first
\* segment of a field pattern or of a concrete path expanded from one, so
\* an input key that no pattern addresses is not in validated.
C5_OnlyAddressedKeys ==
    (Returned /\ LastResult.valid) =>
        Keys(heap, LastResult.validated) \subseteq
            {Split(walks[j].field)[1] : j \in 1..Len(walks)}

\* a valid result that left out a top-level key of the input
C5_Witness ==
    /\ Returned
    /\ LastResult.valid
    /\ Keys(heap, LastResult.validated) # {}
    /\ Keys(heap, data) \ Keys(heap, LastResult.validated) # {}

\* the rules of a field pattern
RulesOf(pattern) ==
    parsedRules[CHOOSE i \in 1..Len(parsedRules) :
                    parsedRules[i][1] = pattern][2]

\* the rule that an "invoke" event of a walk of `pattern` is about
RuleOfEvent(pattern, e) ==
    IF e.list = "top" THEN RulesOf(pattern)[e.item]
    ELSE IF e.list = "then" THEN RulesOf(pattern)[e.item].thenRules[e.pos]
    ELSE RulesOf(pattern)[e.item].elseRules[e.pos]

\* emptiness as the specification words it, on a tree: null, undefined, a
\* string of whitespace only, or a sequence without element (an array may
\* still carry properties that are not elements)
EmptySpec(tree) ==
    \/ tree \in {Null, Undefined}
    \/ tree.t = "string" /\ \A i \in 1..Len(tree.v) : tree.v[i] = " "
    \/ /\ tree.t = "tree"
       /\ tree.v.kind = "array"
       /\ \A i \in 1..Len(tree.v.ents) : ~IsArrayIndex(tree.v.ents[i][1])

\* the value of a walk is empty
WalkEmpty(w) == EmptySpec(Snapshot(w.h, w.value))

\* an event of a top-level rule that failed and whose handler bails
BailedAtTop(pattern, e) ==
    /\ e.ev = "invoke"
    /\ e.list = "top"
    /\ e.error # NoError
    /\ RulesOf(pattern)[e.item].handler.bailOnFailure = "true"

\* the record {a: val}
RecordA(val) == ObjectTree(<<<<Path1("a"), val>>>>)
\* the record {a: x, c: y}
RecordAC(x, y) == ObjectTree(<<<<Path1("a"), x>>, <<Path1("c"), y>>>>)
\* the error {key, params: {field}}
FieldError(key, field) == Error(key, <<<<"field", field>>>>)

\* C6: when a top-level rule whose handler bails produces an error, nothing
\* of the field's list is evaluated after it and the field's error list
\* ends with that error; ['required', 'string', ['min', 5]] on '' gives
\* exactly the error validation.required.
C6_BailAtTopLevel ==
    /\ \A j \in 1..Len(walks) : \A i \in 1..Len(walks[j].log) :
          BailedAtTop(walks[j].pattern, walks[j].log[i]) =>
              /\ i = Len(walks[j].log)
              /\ Len(walks[j].errors) > 0
              /\ walks[j].errors[Len(walks[j].errors)] = walks[j].log[i].error
    /\ (Returned /\ rules = RequiredStringMin /\ before = RecordA(Str(<<>>)))
          => /\ DOMAIN LastResult.errors = {Path1("a")}
             /\ LastResult.errors[Path1("a")] =
                    <<FieldError("validation.required", Path1("a"))>>

\* a top-level bail happened before the end of the rule list
C6_Witness ==
    \E j \in 1..Len(walks) : \E i \in 1..Len(walks[j].log) :
        /\ BailedAtTop(walks[j].pattern, walks[j].log[i])
        /\ walks[j].log[i].item < Len(RulesOf(walks[j].pattern))
        /\ isConditionalRule(RulesOf(walks[j].pattern)[walks[j].log[i].item + 1])

\* the rules of a list without the nullable modifier
WithoutNullable(items) ==
    SelectSeq(items, LAMBDA it : ~(it.type = "rule" /\ it.name = "nullable"))

\* C7: when the rule list of a field contains nullable and the value is
\* empty, the walk gives no error, invokes no handler and evaluates no
\* condition; when the value is not empty the errors are those of the list
\* without nullable.  ['nullable', 'integer']: null and undefined are valid,
\* 'x' gives validation.integer, 5 is valid.
C7_NullableShortCircuit ==
    /\ \A j \in 1..Len(walks) :
          hasNullableRule(RulesOf(walks[j].pattern)) =>
              IF WalkEmpty(walks[j])
              THEN walks[j].errors = <<>> /\ walks[j].log = <<>>
              ELSE walks[j].errors =
                      validateField(walks[j].h,
                                    WalkStart(walks[j].rx),
                                    walks[j].field, walks[j].value, data,
                                    WithoutNullable(RulesOf(walks[j].pattern))
                                   ).errors
    /\ (Returned /\ rules = NullableInteger) =>
          /\ before \in {RecordA(Null), RecordA(Undefined), RecordA(Num(5))}
                => LastResult.valid
          /\ before = RecordA(Str(<<"x">>))
                => /\ ~LastResult.valid
                   /\ LastResult.errors[Path1("a")] =
                          <<FieldError("validation.integer", Path1("a"))>>

\* nullable short-circuited a list that holds a rule run on empty values
C7_Witness ==
    \E j \in 1..Len(walks) :
        /\ hasNullableRule(RulesOf(walks[j].pattern))
        /\ WalkEmpty(walks[j])
        /\ \E i \in 1..Len(RulesOf(walks[j].pattern)) :
              RulesOf(walks[j].pattern)[i].name = "required"

\* the errors returned by the handlers of a log, in order
ErrorsOfLog(log) ==
    LET failed == SelectSeq(log, LAMBDA e : e.error # NoError)
    IN [i \in 1..Len(failed) |-> failed[i].error]

\* the rules of list `list` of item `item` of a pattern
BranchRules(pattern, item, list) ==
    IF list = "then" THEN RulesOf(pattern)[item].thenRules
    ELSE RulesOf(pattern)[item].elseRules

\* walk w invoked the handler of the pos-th rule of list `list` of `item`
Invoked(w, item, list, pos) ==
    \E i \in 1..Len(w.log) :
        /\ w.log[i].ev = "invoke"
        /\ w.log[i].item = item
        /\ w.log[i].list = list
        /\ w.log[i].pos = pos

\* in walk w a bailing rule failed in the same list, before that rule
BailedBefore(w, item, list, pos) ==
    \E i \in 1..Len(w.log) :
        /\ w.log[i].ev = "invoke"
        /\ w.log[i].list = list
        /\ IF list = "top" THEN w.log[i].item < item
           ELSE w.log[i].item = item /\ w.log[i].pos < pos
        /\ w.log[i].error # NoError
        /\ RuleOfEvent(w.pattern, w.log[i]).handler.bailOnFailure = "true"

\* C8: a handler whose skipIfEmpty is true or unset is never invoked with an
\* empty value, at top level or in a branch; a skipped rule gives no error
\* and does not stop its list; a handler with skipIfEmpty = false is
\* invoked on empty values (unless nullable applies or its list bailed).
C8_SkipIfEmpty ==
    \A j \in 1..Len(walks) :
        /\ \A i \in 1..Len(walks[j].log) :
              (walks[j].log[i].ev = "invoke" /\ WalkEmpty(walks[j])) =>
                  RuleOfEvent(walks[j].pattern,
                              walks[j].log[i]).handler.skipIfEmpty = "false"
        /\ walks[j].errors = ErrorsOfLog(walks[j].log)
        /\ (WalkEmpty(walks[j])
              /\ ~hasNullableRule(RulesOf(walks[j].pattern))) =>
              /\ \A n \in 1..Len(RulesOf(walks[j].pattern)) :
                    (/\ ~isConditionalRule(RulesOf(walks[j].pattern)[n])
                     /\ RulesOf(walks[j].pattern)[n].handler.skipIfEmpty
                            = "false"
                     /\ ~BailedBefore(walks[j], n, "top", 0))
                    => Invoked(walks[j], n, "top", 0)
              /\ \A c \in 1..Len(walks[j].log) :
                    (walks[j].log[c].ev = "cond"
                       /\ walks[j].log[c].list # "none") =>
                        \A n \in 1..Len(BranchRules(walks[j].pattern,
                                                    walks[j].log[c].item,
                                                    walks[j].log[c].list)) :
                            (/\ BranchRules(walks[j].pattern,
                                            walks[j].log[c].item,
                                            walks[j].log[c].list)[n]
                                    .handler.skipIfEmpty = "false"
                             /\ ~BailedBefore(walks[j], walks[j].log[c].item,
                                              walks[j].log[c].list, n))
                            => Invoked(walks[j], walks[j].log[c].item,
                                       walks[j].log[c].list, n)

\* on an empty value a rule with skipIfEmpty unset was skipped and a later
\* rule with skipIfEmpty = false was invoked, in a branch (the second rule
\* of 'then') and at top level (the third item, after the skipped first)
C8_Witness ==
    \E j \in 1..Len(walks) :
        /\ WalkEmpty(walks[j])
        /\ Len(RulesOf(walks[j].pattern)) >= 3
        /\ RulesOf(walks[j].pattern)[1].type = "rule"
        /\ RulesOf(walks[j].pattern)[1].handler.skipIfEmpty = "unset"
        /\ Len(walks[j].log) = 3
        /\ walks[j].log[1].ev = "cond"
        /\ walks[j].log[2].ev = "invoke"
        /\ walks[j].log[2].list = "then"
        /\ walks[j].log[2].pos = 2
        /\ walks[j].log[3].ev = "invoke"
        /\ walks[j].log[3].list = "top"
        /\ walks[j].log[3].item = 3

\* event e of a walk of `pattern`: a bailing rule failed inside a branch
BailedInBranch(pattern, e) ==
    /\ e.ev = "invoke"
    /\ e.list \in {"then", "else"}
    /\ e.error # NoError
    /\ RuleOfEvent(pattern, e).handler.bailOnFailure = "true"

\* walk w evaluated the top-level item n of its list: its condition was
\* evaluated, or its handler was invoked, or it was skipped for an empty
\* value; or the list had stopped at a top-level bail before it
EvaluatedAtTop(w, n) ==
    IF isConditionalRule(RulesOf(w.pattern)[n])
    THEN \E i \in 1..Len(w.log) : w.log[i].ev = "cond" /\ w.log[i].item = n
    ELSE \/ Invoked(w, n, "top", 0)
         \/ /\ RulesOf(w.pattern)[n].handler.skipIfEmpty # "false"
            /\ WalkEmpty(w)
         \/ BailedBefore(w, n, "top", 0)

\* what C11 says of walk w and its event e
BranchBailOnly(w, e) ==
    /\ \A m \in 1..Len(w.log) :
          ~(/\ w.log[m].ev = "invoke"
            /\ w.log[m].item = e.item
            /\ w.log[m].list = e.list
            /\ w.log[m].pos > e.pos)
    /\ w.errors = ErrorsOfLog(w.log)
    /\ \E m \in 1..Len(w.errors) : w.errors[m] = e.error
    /\ \A n \in (e.item + 1)..Len(RulesOf(w.pattern)) : EvaluatedAtTop(w, n)

\* C11: when a rule whose handler bails fails inside the selected branch of
\* a conditional item, no later rule of that branch is run, the errors of
\* the branch are in the field's list, and the top-level items that follow
\* the conditional item are still evaluated.
C11_BailInBranchStopsBranchOnly ==
    \A j \in 1..Len(walks) :
        \A i \in 1..Len(walks[j].log) :
            BailedInBranch(walks[j].pattern, walks[j].log[i]) =>
                BranchBailOnly(walks[j], walks[j].log[i])

\* a bailing rule failed in a branch before a rule of the branch that runs
\* on empty values, and a top-level item after the conditional item was
\* invoked and failed too
C11_Witness ==
    \E j \in 1..Len(walks) :
        \E i \in 1..Len(walks[j].log) :
            /\ BailedInBranch(walks[j].pattern, walks[j].log[i])
            /\ walks[j].log[i].pos <
                  Len(BranchRules(walks[j].pattern, walks[j].log[i].item,
                                  walks[j].log[i].list))
            /\ BranchRules(walks[j].pattern, walks[j].log[i].item,
                           walks[j].log[i].list)[walks[j].log[i].pos + 1]
                    .handler.skipIfEmpty = "false"
            /\ \E m \in (i + 1)..Len(walks[j].log) :
                  /\ walks[j].log[m].ev = "invoke"
                  /\ walks[j].log[m].list = "top"
                  /\ walks[j].log[m].item > walks[j].log[i].item
                  /\ walks[j].log[m].error # NoError
            /\ Len(walks[j].errors) >= 2

\* path.key, a path of the expansion
JoinPath(path, key) == IF path = <<>> THEN key ELSE path \o <<".">> \o key

\* the member `key` of a tree, undefined when there is none
Member(tree, key) ==
    IF tree.t = "tree" /\ \E i \in 1..Len(tree.v.ents) :
                             tree.v.ents[i][1] = key
    THEN tree.v.ents[CHOOSE i \in 1..Len(tree.v.ents) :
                         tree.v.ents[i][1] = key][2]
    ELSE Undefined

RECURSIVE ExpansionOf(_, _, _, _)
RECURSIVE ExpansionOfEntries(_, _, _, _, _)
\* The expansion as C12 words it, on the literal of the record: the
\* <<path, value>> entries of parts[index..] below `tree`, a container
\* contributing its entries in the order of the literal (the elements of a
\* sequence by ascending index, the entries of a keyed container in
\* insertion order), anything else at a wildcard contributing nothing.
ExpansionOf(tree, parts, index, path) ==
    IF index > Len(parts) THEN <<<<path, tree>>>>
    ELSE IF parts[index] = <<"*">>
    THEN IF tree.t = "tree"
         THEN ExpansionOfEntries(tree.v.ents, 1, parts, index, path)
         ELSE <<>>
    ELSE ExpansionOf(Member(tree, parts[index]), parts, index + 1,
                     JoinPath(path, parts[index]))

ExpansionOfEntries(ents, i, parts, index, path) ==
    IF i > Len(ents) THEN <<>>
    ELSE ExpansionOf(ents[i][2], parts, index + 1,
                     JoinPath(path, ents[i][1]))
         \o ExpansionOfEntries(ents, i + 1, parts, index, path)

\* a literal as a deep comparison sees its object
Canonical(tree) == Snapshot(Build(EmptyHeap, tree).h, Build(EmptyHeap, tree).v)

\* the entries of a Map by value
EntriesByValue(h, map) ==
    [i \in 1..Len(map) |-> <<map[i][1], Snapshot(h, map[i][2])>>]
\* the entries of an expansion of a literal by value
ExpansionByValue(entries) ==
    [i \in 1..Len(entries) |-> <<entries[i][1], Canonical(entries[i][2])>>]

\* C12: expandWildcards returns the entries of the expansion in order: a
\* sequence contributes its elements by ascending index and a keyed
\* container its entries in insertion order, several wildcards enumerate
\* outer-to-inner and left-to-right, and an empty sequence, a missing value
\* or a value that is no container gives no entry at a wildcard;
\* 'm.*.n' over two items gives m.0.n then m.1.n.
C12_WildcardOrderedAndTotal ==
    wcResult.called =>
        EntriesByValue(heap, wcResult.value) =
            ExpansionByValue(ExpansionOf(wcLiteral, Split(wcPattern), 1,
                                         <<>>))

\* a name within the length bound that matches ^[a-z][a-z0-9_]*$
WellFormedName(name) ==
    /\ Len(RuleNameText[name]) <= 1024
    /\ Len(RuleNameText[name]) >= 1
    /\ RuleNameText[name][1] \in NameStart
    /\ \A i \in 2..Len(RuleNameText[name]) :
          RuleNameText[name][i] \in NameStart \cup DigitSet \cup {"_"}

\* the Simple/Parameterized rules that an authored item holds
RulesOfItem(rule) ==
    IF rule.shape = "when" THEN rule.thenRules \o rule.elseRules
    ELSE <<rule>>

RECURSIVE RulesOfList(_, _)
\* ... that the items list[i..] hold, in order
RulesOfList(list, i) ==
    IF i > Len(list) THEN <<>>
    ELSE RulesOfItem(list[i]) \o RulesOfList(list, i + 1)

RECURSIVE RulesOfSet(_, _)
\* ... that the entries rs[i..] of a rule set hold, in order
RulesOfSet(rs, i) ==
    IF i > Len(rs) THEN <<>>
    ELSE RulesOfList(rs[i][2], 1) \o RulesOfSet(rs, i + 1)

\* every rule of the set, at top level or in a branch, is a name or a
\* [name, ...params] tuple
OnlyNamedRules(rs) ==
    \A i \in 1..Len(RulesOfSet(rs, 1)) :
        RulesOfSet(rs, 1)[i].shape \in {"string", "array"}

\* the rule makes construction fail, reg being the registry
Offending(rule, reg) ==
    ~WellFormedName(rule.name) \/ rule.name \notin DOMAIN reg

\* this step is a call of the constructor
ConstructStep ==
    /\ pc \in {"new", "failed"}
    /\ pc' \in {"idle", "failed"}
    /\ registry' = registry

\* what C13 says of the constructor call that meets `all[i]` as the first
\* offending rule
ClassifiedByName(all, i) ==
    /\ pc' = "failed"
    /\ parsedRules' = <<>>
    /\ exception'.ruleName = all[i].name
    /\ exception'.class = IF WellFormedName(all[i].name)
                          THEN "UnknownRuleException"
                          ELSE "InvalidRuleNameException"

\* C13: a rule name that is longer than 1024 characters or does not match
\* ^[a-z][a-z0-9_]*$ makes the constructor fail with InvalidRuleName,
\* whether or not a handler is registered under it; a well-formed name that
\* the registry lacks makes it fail with UnknownRule; this holds at top
\* level and in the branches of a conditional, the first such rule in the
\* order of the rule set deciding, and no Validator is produced.
C13_RuleNameErrors ==
    [][(ConstructStep /\ OnlyNamedRules(rules')) =>
          \A i \in 1..Len(RulesOfSet(rules', 1)) :
              (/\ Offending(RulesOfSet(rules', 1)[i], registry)
               /\ \A j \in 1..(i - 1) :
                     ~Offending(RulesOfSet(rules', 1)[j], registry))
              => ClassifiedByName(RulesOfSet(rules', 1), i)]_vars

\* the constructor failed with InvalidRuleName on a name under which a
\* handler was registered when it ran
C13_Witness ==
    /\ pc = "failed"
    /\ exception.class = "InvalidRuleNameException"
    /\ exception.ruleName \in DOMAIN registryAtConstruct

\* a branch of a conditional rule of the set holds a ['when', ...] tuple
HasNestedWhen(rs) ==
    \E i \in 1..Len(RulesOfSet(rs, 1)) : RulesOfSet(rs, 1)[i].shape = "when"

\* C14: a rule set that places a ['when', ...] tuple in the 'then' or the
\* 'else' list of a conditional rule is rejected by the constructor: the
\* call fails and no Validator is produced.
C14_NoNestedConditionals ==
    [][(ConstructStep /\ HasNestedWhen(rules')) =>
          (pc' = "failed" /\ parsedRules' = <<>>)]_vars

\* the first rule of `all` that makes construction fail is the i-th, an
\* entry that is neither a string nor an array
FirstFailureIsNoRule(all, i, reg) ==
    /\ all[i].shape = "object"
    /\ \A j \in 1..(i - 1) :
          all[j].shape \in {"string", "array"} /\ ~Offending(all[j], reg)

\* C21: a rule entry that is neither a string nor a sequence makes the
\* constructor fail with an error of a kind of its own, which is neither
\* the invalid-rule-name error nor the unknown-rule error, and the failure
\* is raised by the constructor, before any record is validated.
C21_StructuralErrorOfItsOwn ==
    [][(/\ ConstructStep
        /\ \E i \in 1..Len(RulesOfSet(rules', 1)) :
              FirstFailureIsNoRule(RulesOfSet(rules', 1), i, registry)) =>
          (/\ pc' = "failed"
           /\ parsedRules' = <<>>
           /\ exception'.class \notin {"InvalidRuleNameException",
                                       "UnknownRuleException"})]_vars

\* C22: a rule set that holds a ['regex', pattern] rule, serialized to a
\* source/flags pair and reconstructed from it, gives a Validator that
\* passes and fails exactly the records that the Validator built from the
\* original pattern object passes and fails, at every point of any sequence
\* of validate calls.
C22_RegexRoundTrip ==
    rtVerdicts.called =>
        rtVerdicts.value.original = rtVerdicts.value.restored

\* the containers that the containers of S hold directly, and S
ReachStep(h, S) ==
    S \cup {h[id].ents[i][2].v :
              <<id, i>> \in {<<id, i>> \in S \X (1..16) :
                                /\ i <= Len(h[id].ents)
                                /\ h[id].ents[i][2].t = "ref"}}

RECURSIVE ReachN(_, _, _)
\* the containers reached from S in at most n steps
ReachN(h, S, n) == IF n = 0 THEN S ELSE ReachN(h, ReachStep(h, S), n - 1)

\* the containers reachable from a value
Reachable(h, val) ==
    IF val.t # "ref" THEN {} ELSE ReachN(h, {val.v}, Len(h))

\* C23: the validated tree of a result is disjoint from the input: no
\* container reachable from result.validated is a container reachable from
\* the input record, so that a later write into validated cannot change
\* the input.
C23_ValidatedDisjointFromInput ==
    \A i \in 1..Len(results) :
        Reachable(heap, results[i].validated) \cap Reachable(heap, data) = {}

\* C15: once a Validator is constructed, validate returns a result for
\* every record and never raises: a malformed rule set (a missing
\* condition, an operand of 'in' that is no list, a regular-expression
\* source that does not compile) is rejected by the constructor.
C15_ValidateNeverRaises == pc # "raised"

\* every handler that the current call of validate invoked is the one that
\* the registry held under the rule's name when the Validator was
\* constructed
InvokesResolvedHandlers ==
    \A j \in 1..Len(walks) : \A i \in 1..Len(walks[j].log) :
        walks[j].log[i].ev = "invoke" =>
            walks[j].log[i].handler =
                getRule(registryAtConstruct, walks[j].log[i].name)

\* this step constructs a Validator anew from the rule set whose
\* construction failed on a name the registry lacked, every name of the set
\* being well-formed and registered by now
ConstructAgainOnceRegistered ==
    /\ ConstructStep
    /\ pc = "failed"
    /\ exception.class = "UnknownRuleException"
    /\ rules' = rules
    /\ OnlyNamedRules(rules)
    /\ \A i \in 1..Len(RulesOfSet(rules, 1)) :
          ~Offending(RulesOfSet(rules, 1)[i], registry)

\* C16: registrations made after a Validator is constructed do not affect
\* it: whatever registerRule calls follow the construction (new names, or
\* another handler under a name the Validator uses), every later call of
\* validate invokes exactly the handlers resolved at construction; and a
\* rule name registered only after a failed construction makes a new
\* construction from the same rule set succeed.
C16_LaterRegistrationsIgnored ==
    /\ []InvokesResolvedHandlers
    /\ [][ConstructAgainOnceRegistered =>
            (pc' = "idle" /\ exception' = NoException
               /\ parsedRules' = parseRules(registry, rules).value)]_vars

\* inside a call of validate, a handler was invoked under a name that the
\* registry has held another handler for since the construction
C16_Witness ==
    /\ pc = "loop"
    /\ \E j \in 1..Len(walks) : \E i \in 1..Len(walks[j].log) :
          /\ walks[j].log[i].ev = "invoke"
          /\ getRule(registry, walks[j].log[i].name) # walks[j].log[i].handler

\* Number(val): the numeric coercion of a value held in heap h
Coerced(h, val) == ToNumber(ToPrimitive(h, val))

\* the arithmetic comparison x op y of two numbers
Arithmetic(x, op, y) ==
    CASE op = ">" -> x > y
      [] op = ">=" -> x >= y
      [] op = "<" -> x < y
      [] op = "<=" -> x <= y

\* the ordering condition on the other field's value a and the expected
\* value b, both coerced to numbers: false when either is NaN
NumericOrdering(h, a, op, b) ==
    /\ Coerced(h, a).t = "number"
    /\ Coerced(h, b).t = "number"
    /\ Arithmetic(Coerced(h, a).v, op, Coerced(h, b).v)

\* the call was made with an ordering condition [field, op, expected]
OrderingEvaluated ==
    /\ evResult.called
    /\ evCondition.op = "field"
    /\ evCondition.cmp \in OrderingOps

\* C17: the ordering comparators of a field condition ('>', '>=', '<',
\* '<=') coerce both sides to numbers: a condition whose other-field
\* value or expected value is not numeric (two non-numeric strings, an
\* absent field) evaluates to false, and with numeric operands the outcome
\* is the arithmetic comparison (quantity >= 10 holds for 10, not for 5).
C17_OrderingCoercesNumerically ==
    OrderingEvaluated =>
        /\ evResult.value.thrown = NoException
        /\ evResult.value.res
              = NumericOrdering(heap, get(heap, data, evCondition.field),
                                evCondition.cmp, evCondition.expected)

RECURSIVE Outcomes(_, _, _, _, _, _)
\* the outcomes of the sub-conditions subs[i..] were each of them evaluated,
\* from left to right, on the same current value and record, each one from
\* the regex store that the one before left
Outcomes(h, rx0, subs, i, currentValue, allData) ==
    IF i > Len(subs) THEN <<>>
    ELSE <<evaluateCondition(h, rx0, subs[i], currentValue, allData)>>
         \o Outcomes(h,
                     evaluateCondition(h, rx0, subs[i], currentValue,
                                       allData).rx,
                     subs, i + 1, currentValue, allData)

\* the outcome o of a sub-condition ends the evaluation of the compound:
\* false under 'and', true under 'or', or an exception
Decisive(op, o) ==
    \/ o.thrown # NoException
    \/ op = "and" /\ ~o.res
    \/ op = "or" /\ o.res

\* the first decisive outcome of o, or Len(o) + 1
FirstDecisive(op, o) ==
    IF \E i \in 1..Len(o) : Decisive(op, o[i])
    THEN CHOOSE i \in 1..Len(o) :
            /\ Decisive(op, o[i])
            /\ \A j \in 1..(i - 1) : ~Decisive(op, o[j])
    ELSE Len(o) + 1

\* what C18 says of a compound condition whose sub-conditions have the
\* outcomes o: `out` is the outcome of the compound and rx1 the regex store
\* after it, rx0 the store before
CompoundOutcome(op, o, rx0, out, rx1) ==
    IF FirstDecisive(op, o) <= Len(o)
    THEN /\ out.res = o[FirstDecisive(op, o)].res
         /\ out.thrown = o[FirstDecisive(op, o)].thrown
         /\ rx1 = o[FirstDecisive(op, o)].rx
    ELSE /\ out.res = (op = "and")
         /\ out.thrown = NoException
         /\ rx1 = IF Len(o) = 0 THEN rx0 ELSE o[Len(o)].rx

\* C18: ['and', c1..cn] is true iff every ci is true and evaluation stops
\* at the first false ci; ['or', c1..cn] is true iff some ci is true and
\* evaluation stops at the first true ci; the sub-conditions are evaluated
\* from left to right with the same current value and record and may be
\* compound themselves; 'and' over no sub-condition is true, 'or' over
\* none is false.
C18_CompoundConditions ==
    [][(~evResult.called /\ evResult'.called
          /\ evCondition.op \in {"and", "or"}) =>
            CompoundOutcome(evCondition.op,
                            Outcomes(heap, rx, evCondition.subs, 1, evValue,
                                     data),
                            rx, evResult'.value, rx')]_vars

\* an 'and' came out false without an exception although one of its
\* sub-conditions throws when it is evaluated
C18_Witness ==
    /\ evResult.called
    /\ evCondition.op = "and"
    /\ \E i \in 1..Len(evCondition.subs) : evCondition.subs[i] = InNumber
    /\ evResult.value = [res |-> FALSE, thrown |-> NoException]

\* the locale defines a message for the key
Defines(messages, locale, key) ==
    locale \in DOMAIN messages /\ key \in DOMAIN messages[locale]

\* the template that C19 names for a key
TemplateByOrder(messages, locale, options, key) ==
    IF Defines(messages, locale, key) THEN messages[locale][key]
    ELSE IF Defines(messages,
                    IF "defaultLocale" \in DOMAIN options
                    THEN options.defaultLocale ELSE "en",
                    key)
    THEN messages[IF "defaultLocale" \in DOMAIN options
                  THEN options.defaultLocale ELSE "en"][key]
    ELSE KeyText[key]

\* the string for an error and a field once the template is chosen
Rendered(text, options, error, field) ==
    interpolate(text, withParam(error.params, <<"f", "i", "e", "l", "d">>,
                                Str(getFieldLabel(options, field))))

\* this step is a call of formatError
FormatStep == fmOutput' # fmOutput

\* C19: the template for an error key k is the current locale's message for
\* k if that locale defines k, otherwise the default locale's message for k
\* if defined (the default locale being options.defaultLocale, or 'en' when
\* unset), otherwise the raw key k; setLocale and addMessages affect only
\* the formatting calls made afterwards.
C19_TemplateLookupOrder ==
    [][/\ FormatStep =>
            fmOutput'.value.text
              = Rendered(TemplateByOrder(fmMessages, fmLocale, fmOptions,
                                         fmOutput'.value.error.key),
                         fmOptions, fmOutput'.value.error,
                         fmOutput'.value.field)
       /\ (fmLocale' # fmLocale \/ fmMessages' # fmMessages) =>
            fmOutput' = fmOutput]_vars

\* the last string was formatted from the default locale's template, and
\* the current locale, another one, defines the key by now and gives another
\* string: the locale or the messages changed after the call
C19_Witness ==
    /\ fmOutput.called
    /\ Defines(fmMessages, defaultLocaleOf(fmOptions),
               fmOutput.value.error.key)
    /\ fmLocale # defaultLocaleOf(fmOptions)
    /\ fmOutput.value.text
         = Rendered(fmMessages[defaultLocaleOf(fmOptions)]
                              [fmOutput.value.error.key],
                    fmOptions, fmOutput.value.error, fmOutput.value.field)
    /\ Defines(fmMessages, fmLocale, fmOutput.value.error.key)
    /\ fmOutput.value.text
         # formatError(fmMessages, fmLocale, fmOptions, fmOutput.value.error,
                       fmOutput.value.field)

\* the pattern matches the field path segment by segment, a '*' standing
\* for one segment that is not empty
SegmentsMatch(pattern, field) ==
    /\ Len(Split(pattern)) = Len(Split(field))
    /\ \A i \in 1..Len(Split(pattern)) :
          IF Split(pattern)[i] = <<"*">> THEN Len(Split(field)[i]) > 0
          ELSE Split(pattern)[i] = Split(field)[i]

\* the label that C20 names for a field path
LabelByOrder(labels, field) ==
    IF \E i \in 1..Len(labels) : labels[i][1] = field
    THEN labels[CHOOSE i \in 1..Len(labels) : labels[i][1] = field][2]
    ELSE IF \E i \in 1..Len(labels) :
               Includes(labels[i][1], "*") /\ SegmentsMatch(labels[i][1], field)
    THEN labels[CHOOSE i \in 1..Len(labels) :
                   /\ Includes(labels[i][1], "*")
                   /\ SegmentsMatch(labels[i][1], field)
                   /\ \A j \in 1..(i - 1) :
                         ~(/\ Includes(labels[j][1], "*")
                           /\ SegmentsMatch(labels[j][1], field))][2]
    ELSE field

\* C20: the label used for the {field} placeholder of a concrete field path
\* f is the label registered under exactly f if one is registered, whatever
\* its text; otherwise the label of the first wildcard-pattern entry, in
\* the iteration order of the labels, whose pattern matches f with each
\* '*' standing for exactly one non-dot segment; otherwise f itself.  The
\* resolved label always overrides the error's own 'field' parameter.
C20_LabelResolutionOrder ==
    [][FormatStep =>
          fmOutput'.value.text
            = interpolate(template(fmMessages, fmLocale, fmOptions,
                                   fmOutput'.value.error.key),
                          withParam(fmOutput'.value.error.params,
                                    <<"f", "i", "e", "l", "d">>,
                                    Str(LabelByOrder(labelsOf(fmOptions),
                                                     fmOutput'.value.field))))
      ]_vars

\* the condition of the item that a "cond" event of a walk is about
CondOfEvent(pattern, e) == RulesOf(pattern)[e.item].condition

\* C9: isEmpty(v) holds exactly for null, undefined, a string that is empty
\* after trimming and an empty sequence (not for 0, false, an empty map or
\* any other value), and the same predicate decides the required rule, the
\* nullable short-circuit, skip-if-empty, the @empty/@filled conditions and
\* the field conditions 'empty'/'filled'.
C9_CanonicalEmptiness ==
    \A j \in 1..Len(walks) :
        /\ isEmpty(walks[j].h, walks[j].value) <=> WalkEmpty(walks[j])
        /\ (hasNullableRule(RulesOf(walks[j].pattern))
              /\ Len(RulesOf(walks[j].pattern)) > 0) =>
              (walks[j].log = <<>> <=> WalkEmpty(walks[j]))
        /\ \A i \in 1..Len(walks[j].log) :
              /\ (walks[j].log[i].ev = "invoke"
                    /\ walks[j].log[i].name = "required") =>
                    (walks[j].log[i].error # NoError <=> WalkEmpty(walks[j]))
              /\ (walks[j].log[i].ev = "invoke"
                    /\ RuleOfEvent(walks[j].pattern, walks[j].log[i])
                           .handler.skipIfEmpty # "false") =>
                    ~WalkEmpty(walks[j])
              /\ (walks[j].log[i].ev = "cond"
                    /\ CondOfEvent(walks[j].pattern,
                                   walks[j].log[i]).op = "@empty") =>
                    (walks[j].log[i].list = "then" <=> WalkEmpty(walks[j]))
              /\ (walks[j].log[i].ev = "cond"
                    /\ CondOfEvent(walks[j].pattern,
                                   walks[j].log[i]).op = "@filled") =>
                    (walks[j].log[i].list = "then" <=> ~WalkEmpty(walks[j]))
              /\ (walks[j].log[i].ev = "cond"
                    /\ CondOfEvent(walks[j].pattern,
                                   walks[j].log[i]).op = "field"
                    /\ CondOfEvent(walks[j].pattern, walks[j].log[i]).cmp
                           \in {"empty", "filled"}) =>
                    (walks[j].log[i].list = "then" <=>
                        (CondOfEvent(walks[j].pattern, walks[j].log[i]).cmp
                             = "empty"
                         <=> EmptySpec(Snapshot(walks[j].h,
                                 get(walks[j].h, data,
                                     CondOfEvent(walks[j].pattern,
                                                 walks[j].log[i]).field)))))

\* the required rule was run on a whitespace-only string and failed
C9_Witness ==
    \E j \in 1..Len(walks) :
        /\ walks[j].value = Str(<<" ", " ">>)
        /\ Len(walks[j].log) > 0
        /\ walks[j].log[Len(walks[j].log)].name = "required"
        /\ walks[j].log[Len(walks[j].log)].error # NoError

\* the condition of a walk's item holds no RegExp object
RECURSIVE HoldsNoRegExp(_)
HoldsNoRegExp(condition) ==
    /\ condition.op # "@matches"
    /\ \A i \in 1..Len(condition.subs) : HoldsNoRegExp(condition.subs[i])

\* C10: for a Conditional item exactly one of these happens: the condition
\* is true and only the 'then' list is run; it is false, there is an 'else'
\* list and only that list is run; it is false, there is no 'else' list, no
\* rule of the item runs and the item gives no error.  With c: [when a =
\* 'b' then required], {a: 'p', c: ''} is valid and {a: 'b', c: ''} is not.
C10_ConditionalBranching ==
    /\ \A j \in 1..Len(walks) : \A i \in 1..Len(walks[j].log) :
          walks[j].log[i].ev = "cond" =>
              \* the branch is chosen by the condition
              /\ HoldsNoRegExp(CondOfEvent(walks[j].pattern, walks[j].log[i]))
                    => walks[j].log[i].list =
                          IF evaluateCondition(walks[j].h, walks[j].rx,
                                 CondOfEvent(walks[j].pattern,
                                             walks[j].log[i]),
                                 walks[j].value, data).res
                          THEN "then"
                          ELSE IF RulesOf(walks[j].pattern)[
                                      walks[j].log[i].item].hasElse
                               THEN "else" ELSE "none"
              \* the rules of the item that run are rules of that branch
              /\ \A n \in 1..Len(walks[j].log) :
                    (/\ walks[j].log[n].ev = "invoke"
                     /\ walks[j].log[n].item = walks[j].log[i].item
                     /\ walks[j].log[n].list # "top") =>
                        /\ n > i
                        /\ walks[j].log[n].list = walks[j].log[i].list
                        /\ walks[j].log[n].list # "none"
                        /\ walks[j].log[n].name =
                              BranchRules(walks[j].pattern,
                                          walks[j].log[n].item,
                                          walks[j].log[n].list)[
                                  walks[j].log[n].pos].name
    /\ (Returned /\ rules = WhenBusinessRequired) =>
          /\ before = RecordAC(Str(<<"p">>), Str(<<>>)) => LastResult.valid
          /\ before = RecordAC(Str(<<"b">>), Str(<<>>)) =>
                /\ ~LastResult.valid
                /\ LastResult.errors[Path1("c")] =
                       <<FieldError("validation.required", Path1("c"))>>

\* a condition was false and the 'else' list was run
C10_Witness ==
    \E j \in 1..Len(walks) : \E i \in 1..Len(walks[j].log) :
        /\ walks[j].log[i].ev = "cond"
        /\ walks[j].log[i].list = "else"
        /\ i < Len(walks[j].log)
        /\ walks[j].log[i + 1].list = "else"


\* the value at the first j segments of a path
AtPrefix(h, root, parts, j) == getWalk(h, root, SubSeq(parts, 1, j), 1)

\* what set leaves at the first j segments, j short of the whole path: the
\* container that was there, or else a new container chosen by the segment
\* that follows
IntermediateKept(h, h2, root, parts, j) ==
    IF AtPrefix(h, root, parts, j).t = "ref"
    THEN AtPrefix(h2, root, parts, j) = AtPrefix(h, root, parts, j)
    ELSE /\ AtPrefix(h2, root, parts, j).t = "ref"
         /\ AtPrefix(h2, root, parts, j).v > Len(h)
         /\ h2[AtPrefix(h2, root, parts, j).v].kind =
               (IF IsDigits(parts[j + 1]) THEN "array" ELSE "object")

\* C24: after set(tree, p, v) with a non-empty path p, get(tree, p) returns
\* v; every intermediate container that existed is reused, every other
\* intermediate is created as an array when the next segment is a
\* non-negative integer literal and as a plain object otherwise; set with an
\* empty path changes nothing.
C24_SetGetRoundTrip ==
    /\ [](stResult.called =>
            /\ stResult.value.thrown = ""
            /\ (stResult.value.read /\ stPath # <<>>) =>
                  stResult.value.value = stValue)
    /\ [][(~stResult.called /\ stResult'.called) =>
            IF stPath = <<>> THEN heap' = heap
            ELSE \A j \in 1..(Len(Split(stPath)) - 1) :
                    IntermediateKept(heap, heap', data, Split(stPath), j)]_vars


\* the boolean and the exception of an outcome of evaluateCondition
Verdict(r) == [res |-> r.res, thrown |-> r.thrown]

\* evaluateCondition is called
EvaluateStep == ~evResult.called /\ evResult'.called

\* the call with another record in place of allData
UnderRecord(tree) ==
    Verdict(evaluateCondition(Build(EmptyHeap, tree).h, rx, evCondition,
                              evValue, Build(EmptyHeap, tree).v))

\* the call with another value in place of currentValue
UnderValue(val) ==
    Verdict(evaluateCondition(heap, rx, evCondition, val, data))

SelfReferential(condition) ==
    condition.op \in {"@empty", "@filled", "@length", "@value", "@type",
                      "@matches"}

\* C25: a self-referential condition gives, for the same currentValue, the
\* same result under every record; a field condition gives, for the same
\* record, the same result under every currentValue; and evaluateCondition
\* changes neither the value nor the record.
C25_ConditionReadsWhatItNames ==
    [][EvaluateStep =>
          /\ SelfReferential(evCondition) =>
                \A tree \in ConditionRecords :
                    UnderRecord(tree) = evResult'.value
          /\ evCondition.op = "field" =>
                \A val \in ConditionValues : UnderValue(val) = evResult'.value
          /\ evValue' = evValue
          /\ data' = data
          /\ Snapshot(heap', data') = before]_vars

\* a field condition held although the value under validation does not
\* satisfy its comparison, and a self-referential condition was evaluated
\* on a record that holds a field
C25_Witness ==
    /\ evResult.called
    /\ evResult.value.thrown = NoException
    /\ \/ /\ evCondition = FieldCond(Path1("q"), ">=", Str(<<"a">>))
          /\ evResult.value.res
          /\ evValue = Str(<<>>)
       \/ /\ evCondition = MatchesGlobal
          /\ before # ObjectTree(<<>>)
          /\ evResult.value.res


\* the errors of a list, as a set
ErrorsIn(list) == {list[i] : i \in 1..Len(list)}

\* C26: when validate returns, the errors of every rule walk that yielded
\* errors are all present in result.errors under the concrete path of the
\* walk, also when two patterns of the rule set address the same path.
C26_NoErrorLost ==
    Returned =>
        \A j \in 1..Len(walks) :
            Len(walks[j].errors) > 0 =>
                /\ walks[j].field \in DOMAIN LastResult.errors
                /\ ErrorsIn(walks[j].errors) \subseteq
                      ErrorsIn(LastResult.errors[walks[j].field])


RECURSIVE PlainKeys(_)
\* no key of the tree holds a '.' or a '*'
PlainKeys(tree) ==
    tree.t = "tree" =>
        \A i \in 1..Len(tree.v.ents) :
            /\ ~Includes(tree.v.ents[i][1], ".")
            /\ ~Includes(tree.v.ents[i][1], "*")
            /\ PlainKeys(tree.v.ents[i][2])

\* the pattern has a segment '*'
HasWildcardSegment(pattern) ==
    \E i \in 1..Len(Split(pattern)) : Split(pattern)[i] = <<"*">>

\* C27: on a record whose keys hold neither '.' nor '*', every pair
\* (concretePath, value) that expandWildcards returns for a wildcard pattern
\* satisfies get(record, concretePath) = value, the concrete paths are
\* pairwise distinct, hold no wildcard segment and have as many segments as
\* the pattern; for a pattern without wildcard the result is the single pair
\* (pattern, get(record, pattern)).
C27_ExpansionAgreesWithLookup ==
    (wcResult.called /\ PlainKeys(wcLiteral)) =>
        IF ~HasWildcardSegment(wcPattern)
        THEN wcResult.value = <<<<wcPattern, get(heap, data, wcPattern)>>>>
        ELSE /\ \A i \in 1..Len(wcResult.value) :
                   /\ get(heap, data, wcResult.value[i][1]) =
                         wcResult.value[i][2]
                   /\ ~HasWildcardSegment(wcResult.value[i][1])
                   /\ Len(Split(wcResult.value[i][1])) = Len(Split(wcPattern))
             /\ \A i, j \in 1..Len(wcResult.value) :
                   wcResult.value[i][1] = wcResult.value[j][1] => i = j


\* the event e of a walk comes before the event f in the order of the rule
\* items: an earlier top-level item, or the same conditional item and an
\* earlier place (its condition, then the rules of the branch)
VisitedBefore(e, f) ==
    \/ e.item < f.item
    \/ e.item = f.item /\ e.pos < f.pos

\* no rule item is visited twice in the walk
VisitsOnce(walk) ==
    \A i, j \in 1..Len(walk.log) :
        i < j => VisitedBefore(walk.log[i], walk.log[j])

\* the wildcard patterns of the rule set
WildcardPatternsOf(parsed) ==
    {parsed[j][1] : j \in {n \in 1..Len(parsed) :
                              isWildcardPattern(parsed[n][1])}}

\* C28: a call of validate that has begun ends; the expansion of a wildcard
\* pattern nests expandRecursive at most (number of segments + 1) deep,
\* however deep the record is; and the rule walk of a field visits each rule
\* item at most once.
C28_ValidateTerminates ==
    /\ (pc = "loop") ~> (pc # "loop")
    /\ [](\A pattern \in WildcardPatternsOf(parsedRules) :
             expandFrom(heap, pattern, data).deepest
                <= Len(Split(pattern)) + 1)
    /\ [](\A j \in 1..Len(walks) : VisitsOnce(walks[j]))

\* validate returned for the rule set '*': ['required'] and a record three
\* containers deep: the expansion nested two activations and the walk
\* visited a rule item
C28_Witness ==
    /\ Returned
    /\ WildcardPatternsOf(parsedRules) = {Path1("*")}
    /\ expandFrom(heap, Path1("*"), data).deepest = 2
    /\ get(heap, data, Path3("u", "a", "b")) = Str(<<"x">>)
    /\ \E j \in 1..Len(walks) : Len(walks[j].log) > 0


\* C29: the error list of a field holds exactly the errors that the rules of
\* its list returned, one for each failing rule, in the order of the rule
\* items (the errors of a branch, in branch order, at the place of their
\* conditional item); the handler of a rule item is invoked at most once for
\* a concrete field in one call of validate.
C29_ErrorsInRuleOrder ==
    /\ \A j \in 1..Len(walks) :
          /\ walks[j].errors = ErrorsOfLog(walks[j].log)
          /\ \A a, b \in 1..Len(walks[j].log) :
                a < b => VisitedBefore(walks[j].log[a], walks[j].log[b])
    /\ \A i, j \in 1..Len(walks) :
          (walks[i].pattern = walks[j].pattern
              /\ walks[i].field = walks[j].field) => i = j

\* a walk gave an error of a top-level rule, then an error of a branch, then
\* an error of a later top-level rule
C29_Witness ==
    \E j \in 1..Len(walks) :
        /\ Len(walks[j].errors) >= 3
        /\ \E a, b, c \in 1..Len(walks[j].log) :
              /\ a < b /\ b < c
              /\ walks[j].log[a].list = "top"
              /\ walks[j].log[a].error # NoError
              /\ walks[j].log[b].list \in {"then", "else"}
              /\ walks[j].log[b].error # NoError
              /\ walks[j].log[c].list = "top"
              /\ walks[j].log[c].error # NoError


\* the rule list with nullable taken out of the branches of its
\* conditional items
WithoutBranchNullable(items) ==
    [i \in 1..Len(items) |->
        IF isConditionalRule(items[i])
        THEN [items[i] EXCEPT !.thenRules = WithoutNullable(@),
                              !.elseRules = WithoutNullable(@)]
        ELSE items[i]]

\* C30: nullable at any place of the top-level list of a field, also after
\* required, suppresses every rule of the field for an empty value; nullable
\* inside a branch only suppresses nothing: the errors are those of the list
\* without it, and where it is run it returns no error.
C30_NullableAtTopLevelOnly ==
    \A j \in 1..Len(walks) :
        /\ (/\ \E i \in 1..Len(RulesOf(walks[j].pattern)) :
                  /\ ~isConditionalRule(RulesOf(walks[j].pattern)[i])
                  /\ RulesOf(walks[j].pattern)[i].name = "nullable"
            /\ WalkEmpty(walks[j]))
              => walks[j].errors = <<>> /\ walks[j].log = <<>>
        /\ (~\E i \in 1..Len(RulesOf(walks[j].pattern)) :
                  /\ ~isConditionalRule(RulesOf(walks[j].pattern)[i])
                  /\ RulesOf(walks[j].pattern)[i].name = "nullable")
              => walks[j].errors =
                    validateField(walks[j].h, WalkStart(walks[j].rx),
                                  walks[j].field, walks[j].value, data,
                                  WithoutBranchNullable(
                                      RulesOf(walks[j].pattern))).errors
        /\ \A i \in 1..Len(walks[j].log) :
              (walks[j].log[i].ev = "invoke"
                  /\ walks[j].log[i].name = "nullable")
                 => walks[j].log[i].error = NoError

\* for an empty value nullable was run inside a branch and a later rule of
\* the list still gave its error
C30_Witness ==
    \E j \in 1..Len(walks) :
        /\ WalkEmpty(walks[j])
        /\ \E a, b \in 1..Len(walks[j].log) :
              /\ a < b
              /\ walks[j].log[a].ev = "invoke"
              /\ walks[j].log[a].name = "nullable"
              /\ walks[j].log[a].list \in {"then", "else"}
              /\ walks[j].log[b].error # NoError

====
